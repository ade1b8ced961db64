\* A manifest of six, a request, two names that come and go in the
\* library with two times, two boots.
CONSTANTS
  HeaderScanRows = 2
  Skipped = {".b"}
  Manifests <- MCManifests
  Specs <- MCSpecs
  Requests <- MCRequests
  Library <- MCLibrary
  Attachments <- MCAttachments
  Outputs <- MCOutputs
  MaxTime = 1
  MaxBoots = 2
SPECIFICATION Spec
INVARIANTS
  LeavesNothing
  InputsReachTheRun
  VerdictIsRight
  ManifestSuffices
  FreshIfNotModified
  DownloadsAreOwn
\* A daemon may refuse its manifest, and stays down.
CHECK_DEADLOCK FALSE
