---------------------------- MODULE MCSecretStore ----------------------------
(* Two words of two bits: enough for words written before and after a      *)
(* failure, for a bit cleared by one secret that another needs, and for a  *)
(* word that is torn.  The secrets: two that overlap, one with a zero      *)
(* word, one whose bits all lie in another, and the two that are refused.  *)
EXTENDS SecretStore

MCWordBits == {0, 1}
Secret(w0, w1) == [i \in Words |-> IF i = 0 THEN w0 ELSE w1]
MCSecrets == {Secret({0}, {1}), Secret({0, 1}, {1}), Secret({}, {0, 1}),
              Secret({1}, {0, 1}), AllZero, AllOnes}
=============================================================================
