\* The same restore into a path whose parent directory has to be created.
SPECIFICATION PublicationSpec
CONSTANTS
  Top = {script, workspace, artifacts}
  Inner = {input, artifact}
  NewParent = TRUE
INVARIANTS
  ReportedIsDurable
