\* Two requirements of one package in one manifest, of which version 2 has a known
\* vulnerability; nobody edits the manifest.
SPECIFICATION FixSpec
CONSTANTS
    FixEntries = {"e1", "e2"}
    FoundInOrder <- OneTwo
    PackageNameOf <- OnePackage
    ManifestOf <- OneManifest
    OutOfReach = {}
    DefaultVersion <- NoDefault
    VulnerableVersions <- SecondVulnerable
    FixVersions = {1, 2}
    FirstRequirements <- Requirements
    MaxFixRuns = 1
    MaxManifestEdits = 0
INVARIANTS NothingLeftToFix
\* The command ends.
CHECK_DEADLOCK FALSE
