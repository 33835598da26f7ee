----------------------------- MODULE VersionNonce -----------------------------
(***************************************************************************)
(* The nonce tiebreak as lww-record.ts computes it: nonces are numbers     *)
(* (randomVersionNonce, an integer below 2^31) but they are compared as    *)
(* decimal STRINGS, character by character, so 9 comes after 10.           *)
(***************************************************************************)
EXTENDS Integers, Sequences

\* String(n): the decimal digits of n, most significant first.
Digits[n \in Nat] ==
  IF n < 10 THEN <<n>> ELSE Append(Digits[n \div 10], n % 10)

\* s > t for strings: the first difference decides, and a proper prefix is smaller.
StringGreater(s, t) ==
  \E i \in 1..Len(s) :
    /\ \A j \in 1..(i - 1) : j <= Len(t) /\ s[j] = t[j]
    /\ i <= Len(t) => s[i] > t[i]

\* String(a) > String(b)
StringAfter(a, b) == StringGreater(Digits[a], Digits[b])
================================================================================
