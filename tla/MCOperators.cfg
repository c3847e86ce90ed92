SPECIFICATION Spec
INVARIANTS SuccessReleases ObjectsAreHeld CaseInOrder CaseDescribesWork ChecksPrecedeWork TestedBeforeUse CallerKeepsDescriptors FailuresAreReported
