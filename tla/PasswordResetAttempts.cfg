CONSTANTS
  o1 = o1
  o2 = o2
  s1 = s1
  p1 = p1
  p2 = p2
  r1 = r1
  r2 = r2
  None = None
  Otps <- OneOtp
  Sessions <- MCSessions
  Passwords <- MCPasswords
  FirstPassword <- p1
  Requests <- MCRequests
  Ttl = 1
  MaxAttempts = 2
  MaxClock = 1
  MaxGuesses = 4
SPECIFICATION Spec
INVARIANTS AttemptsAreBounded
