CONSTANTS
    Sources <- MCSemver
    Semver <- MCSemver
    Repository <- MCRepository
    Rank <- MCRank
    Prerelease <- MCPrerelease
    Pins = {"1.0.0", "v2.0.0"}
    Constraints <- MCConstraints
    Faults = {"crash", "cancel", "error", "list", "drift", "race", "annotate", "remove"}
    MaxEvents = 3
SPECIFICATION Spec
INVARIANTS TypeOK UpgradesWithinPolicy
PROPERTIES RecordedIsNotDowngraded CatchesUp
