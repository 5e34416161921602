SPECIFICATION Spec
CONSTANTS
  va = va
  vb = vb
  submission = submission
  Variants <- TwoVariants
  Versions = {1, 2}
  Pinned = 1
  Submission = submission
  Broken = {2}
  Editable = {"task", "sketch", "harness", "tools"}
  MaxEdits = 1
INVARIANTS TypeOK JudgedOwnOutput AcceptedIsSound PublishableIsEarned
