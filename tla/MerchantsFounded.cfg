SPECIFICATION MerchantSpec
CONSTANTS
  ann = ann  ben = ben  cyd = cyd
  ann1 = ann1  ben1 = ben1  ann2 = ann2
  q1 = q1  q2 = q2
  Users = {ann, ben, cyd}
  Applications = {ann1, ben1, ann2}
  Applicant <- MCApplicant
  Code <- MCCode
  Requests = {q1, q2}
SYMMETRY Symmetric
CHECK_DEADLOCK FALSE
INVARIANT OwnedByApplicant
