------------------------------ MODULE MCUsers ------------------------------
(* Small instances of Users for TLC.                                       *)
EXTENDS Users, TLC

Interchangeable ==
    Permutations(Tasks) \cup Permutations(UserIds) \cup Permutations(Logins)
        \cup Permutations(Emails) \cup Permutations(Passwords)

OneName == [l \in Logins |-> [first |-> <<"a">>, last |-> <<"a">>]]

(* Masks that find everybody, and nobody, and one that is no regular       *)
(* expression.                                                             *)
FewMasks == {[first |-> <<m>>, last |-> <<>>] : m \in {"a", "ya", "("}}

(* Names of every letter in both cases, with and without a wildcard, a     *)
(* backslash or an operator.                                               *)
CONSTANTS l1, l2
TwoNames == l1 :> [first |-> <<"A", "ya", "%">>, last |-> <<"YA", "_", "$">>]
         @@ l2 :> [first |-> <<"a", "YA", "\\", "a">>, last |-> <<"a", ".">>]

(* Masks of letters in either case, of wildcards, plain, escaped and with  *)
(* the backslash escaped, of operators, and of a regular expression that   *)
(* is none.                                                                *)
SomeMasks ==
    {[first |-> m, last |-> <<>>] :
        m \in {<<"a">>, <<"A", "YA">>, <<"ya", "a">>, <<"YA", "%">>, <<"a", "_">>, <<"a", ".">>, <<"(">>,
               <<"ya", "\\">>, <<"\\", "a">>, <<"\\", "%">>, <<"\\", "\\">>, <<"\\", "\\", "%">>}}
    \cup {[first |-> <<>>, last |-> <<"_", "$">>]}
    \cup {[first |-> m, last |-> m] : m \in {<<"A">>, <<"ya">>, <<".">>}}
    \cup {[first |-> <<>>, last |-> <<"_">>]}
=============================================================================
