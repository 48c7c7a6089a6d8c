----------------------------- MODULE NameMask -----------------------------
(***************************************************************************)
(* What a mask finds in a name, in each of the three storages of users:    *)
(* LIKE over PostgreSQL, a regular expression over MongoDB, and a search   *)
(* in memory that folds the case of single bytes.  A name and a mask are   *)
(* sequences of characters: two letters in both cases, one of them         *)
(* Cyrillic and so of two bytes, the characters that mean something to     *)
(* LIKE, and of those that do in a regular expression the dot, the         *)
(* parenthesis (alone it is no regular expression) and the operators.      *)
(***************************************************************************)
EXTENDS Integers, Sequences

(* "$" stands for all operators but the backslash: $ ^ * + ? [ ] { } ) |.  *)
(* What a mask with operators finds over MongoDB, if it is a regular       *)
(* expression at all, is left open.                                        *)
Operators == {"$", "\\"}

Chars == {"a", "A", "ya", "YA", "%", "_", ".", "("} \cup Operators

Fold(c) == CASE c = "A" -> "a" [] c = "YA" -> "ya" [] OTHER -> c

(* mask stands somewhere in name, where Fits says what a character of it   *)
(* stands for.                                                             *)
Occurs(mask, name, Fits(_, _)) ==
    \E k \in 0 .. Len(name) - Len(mask) :
        \A i \in DOMAIN mask : Fits(mask[i], name[k + i])

(* std::tolower of one byte after the other, in the C locale.              *)
ToLower(c) == IF c = "A" THEN "a" ELSE c

MemoryMatches(mask, name) ==
    Occurs(mask, name, LAMBDA m, c : ToLower(m) = ToLower(c))

(* $regex with the option i, which matches anywhere in the name; for masks *)
(* without operators.                                                      *)
MongoMatches(mask, name) ==
    Occurs(mask, name, LAMBDA m, c : m = "." \/ Fold(m) = Fold(c))

(* May it be a regular expression?                                         *)
Compiles(mask) ==
    \/ \A i \in DOMAIN mask : mask[i] # "("
    \/ \E i \in DOMAIN mask : mask[i] \in Operators

(* A character of a LIKE pattern after an odd number of backslashes is     *)
(* taken as it is.                                                         *)
Escaped(pattern, i) ==
    \E k \in 1 .. i - 1 :
        /\ k % 2 = 1
        /\ \A j \in i - k .. i - 1 : pattern[j] = "\\"
        /\ k = i - 1 \/ pattern[i - k - 1] # "\\"

(* text LIKE pattern: the text can be cut into pieces, one for each        *)
(* character of the pattern, and none for the backslash that escapes the   *)
(* next one.                                                               *)
Like(text, pattern) ==
    LET n == Len(pattern)
        Means(i, c) == pattern[i] = c /\ ~Escaped(pattern, i)
    IN  \E cut \in [0 .. n -> 0 .. Len(text)] :
            /\ cut[0] = 0 /\ cut[n] = Len(text)
            /\ \A i \in 1 .. n :
                  CASE Means(i, "%")  -> cut[i] >= cut[i - 1]
                    [] Means(i, "_")  -> cut[i] = cut[i - 1] + 1
                    [] Means(i, "\\") -> cut[i] = cut[i - 1]
                    [] OTHER -> /\ cut[i] = cut[i - 1] + 1
                                /\ pattern[i] = text[cut[i]]

(* Mutant: LIKE with no lower().                                           *)
SqlMatchesCase(mask, name) ==
    mask = <<>> \/ Like(name, <<"%">> \o mask \o <<"%">>)

(* lower() of both.                                                        *)
Lower(s) == [i \in DOMAIN s |-> Fold(s[i])]

SqlMatches(mask, name) ==
    mask = <<>> \/ Like(Lower(name), Lower(<<"%">> \o mask \o <<"%">>))

(* What a mask should find: a name it stands in, in any case.              *)
Contains(name, mask) == Occurs(mask, name, LAMBDA m, c : Fold(m) = Fold(c))
=============================================================================
