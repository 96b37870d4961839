\* Two errors, two results with a value and two without, four blocks: an error with a
\* cause is copied into a Result and propagated while another one is alive.
SPECIFICATION Spec
CONSTANTS
  Errors = {e1, e2}
  Values = {r1, r2}
  Voids = {v1, v2}
  Blocks = {b1, b2, b3, b4}
  MaxChain = 2
SYMMETRY ErrorSymmetry
INVARIANT OneOwner
CHECK_DEADLOCK FALSE
