------------------------- MODULE MC_AclConnectionRecord -------------------------
EXTENDS AclConnectionRecord

CONSTANTS t1, t2

MC_OneThread == {t1}
MC_TwoThreads == {t1, t2}
====
