--------------------------- MODULE MCOrganisations ---------------------------
(* Small instances of Organisations.                                          *)
EXTENDS Organisations, TLC

CONSTANTS navy, arsenal, depot, r1, r2, p1, ted, n1, n2, s1, s2

Body(name, number, pic, flag) ==
  [name |-> name, number |-> number, pic |-> pic, flag |-> flag, source |-> flag]

(* A row with a number, one without, one with a PIC.                          *)
ThreeRows == <<Body(navy, r1, None, TRUE), Body(arsenal, None, None, FALSE),
               Body(depot, None, p1, TRUE)>>

Says(notice_, name, number, source) ==
  [notice |-> notice_, name |-> name, number |-> number, source |-> source]

(* A notice under a name alone, and one with a number nobody holds.           *)
TwoSay == {Says(n1, navy, None, ted), Says(n2, depot, r2, ted)}

Related == {<<navy, navy>>, <<arsenal, arsenal>>, <<depot, depot>>}

Won == {<<1, n1>>, <<2, n1>>, <<2, n2>>}

Runs == Permutations(Sessions)
==============================================================================
