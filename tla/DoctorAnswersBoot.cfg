SPECIFICATION HttpSpec
CONSTANTS
  c1 = c1
  c2 = c2
  Client = {c1, c2}
  Base <- Deployments
  MaxEdits = 1
  Request = {"r1"}
INVARIANT DoctorAnswersBoot
