\* A directory with an executable, two subdirectories and a file in each.
SPECIFICATION PublicationSpec
CONSTANTS
  Top = {script, workspace, artifacts}
  Inner = {input, artifact}
  NewParent = FALSE
INVARIANTS
  LoadableIsComplete
  ReportedIsDurable
PROPERTIES
  NothingReplaced
