SPECIFICATION Spec
CONSTANTS
  va = va
  vb = vb
  submission = submission
  Variants <- OneVariant
  Versions = {1, 2}
  Pinned = 1
  Submission = submission
  Broken = {}
  Editable = {"harness"}
  MaxEdits = 1
PROPERTIES PlannedIsFresh
