CONSTANTS
  j1 = j1
  j2 = j2
  Releases <- MCReleases
  MinVersion <- MCMinVersion
  Jobs <- MCJobs
  MaxCrashes <- MCMaxCrashes
  Built <- MCBuilt

SPECIFICATION FairSpec


INVARIANTS
  TypeOK
  FileSortedUnique

PROPERTIES
  RegistryConverges
