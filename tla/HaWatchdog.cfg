CONSTANTS
    Threshold = 4
    MaxChanges = 6
    WriteOutcomes = {"ok", "raises"}
SPECIFICATION WatchSpec
INVARIANTS BannerIsArmed BannerIsDeserved
 
