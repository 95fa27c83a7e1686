SPECIFICATION Spec
CONSTANTS
  a = a  b = b
  t1 = t1  t2 = t2  t3 = t3  t4 = t4
  Erp = {a, b}
  Login = {t1, t2, t3, t4}
  Logout = {x1, x2}
  ErpOf <- MCErpOf
  NoToken = NoToken
SYMMETRY LoginSymmetry
INVARIANTS TypeOK OneSession ReturnedTokensExpire
\* every login and logout may have ended
CHECK_DEADLOCK FALSE
