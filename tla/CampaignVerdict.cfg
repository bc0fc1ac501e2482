CONSTANTS
  N = 2
  TaskRepetitions = 1
  None = None
SPECIFICATION CampaignSpec
INVARIANTS ManifestHonest FilesAgree
