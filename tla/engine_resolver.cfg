SPECIFICATION Spec
CONSTANTS
  None = None
  NoCeiling = NoCeiling
  NConfigs = 3
  Shortlisted = 2
  MaxAffixPreviews = 3
  Chances <- TwoChances
  Vigors <- TwoVigors
  Settings <- TwoSettings
  IdleViews <- SmallIdle
  BossViews <- SmallBoss
  WorldViews <- SmallWorld
  ProfessionViews <- SmallProfession
  RewardViews <- SmallReward
  Items <- ThreeItems
  Minutes <- SomeMinutes
  WorldAttempts = 3
  QueueLimit = 5
  QueueShort = 2
  QueueSeconds = 6
  MaxVersion = 2
PROPERTY ResolverAgrees
