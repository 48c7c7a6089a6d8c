--------------------------- MODULE UserRegistry ---------------------------
(***************************************************************************)
(* What the user-service promises: an account is opened under a login that *)
(* was free at a moment of the request, and where logins are unique is     *)
(* free still; it is never changed.  Each answer is true at a moment of    *)
(* the request it answers, with two exceptions.  A registry that reads its *)
(* users one after the other lists all there were when it began to read,   *)
(* and of those who came since any; and one with a cache may say of any    *)
(* login that nobody has it: that was once so.  If the registry does not   *)
(* last, all of it may be lost at once.  Users implements it in several    *)
(* steps per request.                                                      *)
(***************************************************************************)
CONSTANTS Tasks, UserIds, Logins, Passwords, None

VARIABLES
    lasting,    \* do the accounts outlive the process?
    unique,     \* are logins unique?
    caching,    \* may it answer from a cache?
    scanning,   \* does it read users one after the other?
    login,      \* the login of each user, or None
    password,   \* the password of each user, or None
    answer      \* what each task has found or is going to be told, or NoAnswer

flags == <<lasting, unique, caching, scanning>>
registryVars == <<flags, login, password, answer>>

NoAnswer == <<>>

Init ==
    /\ lasting \in BOOLEAN /\ unique \in BOOLEAN
    /\ caching \in BOOLEAN /\ scanning \in BOOLEAN
    /\ login = [u \in UserIds |-> None]
    /\ password = [u \in UserIds |-> None]
    /\ answer = [t \in Tasks |-> NoAnswer]

Having(logins) == {u \in UserIds : login[u] \in logins}
Taken == {login[u] : u \in Having(Logins)}

(* What is true of a login, of a login with a password, and of the users.  *)
LoginTruths ==
    {<<"free", l>> : l \in Logins \ Taken}
        \cup {<<"conflict", l>> : l \in Taken}

PasswordTruths ==
    {<<"token", login[u], password[u], {u}>> : u \in Having(Logins)}
        \cup {<<"refused", l, p>> : l \in Logins \ Taken, p \in Passwords}
        \cup UNION {{<<"refused", login[u], p>> : p \in Passwords \ {password[u]}} :
                        u \in Having(Logins)}

UserTruths ==
    {<<"user", l, {}>> : l \in Logins \ Taken}
        \cup {<<"user", login[u], {u}>> : u \in Having(Logins)}

ListTruths ==
    IF scanning
    THEN {<<"reading", Having(Logins)>>}
    ELSE {<<"some", Having(logins)>> : logins \in SUBSET Logins}
             \cup {<<"all", Having(Logins)>>}

Truths == LoginTruths \cup PasswordTruths \cup UserTruths \cup ListTruths

Memories == IF caching THEN {<<"user", l, {}>> : l \in Logins} ELSE {}

Answer(t) ==
    /\ answer[t] = NoAnswer
    /\ \E a \in Truths \cup Memories : answer' = [answer EXCEPT ![t] = a]
    /\ UNCHANGED <<flags, login, password>>

EndScan(t) ==
    \E first \in SUBSET Having(Logins) :
        /\ answer[t] = <<"reading", first>>
        /\ \E more \in SUBSET Having(Logins) :
            LET found == first \cup more
            IN  \/ answer' = [answer EXCEPT ![t] = <<"all", found>>]
                \/ \E logins \in SUBSET Logins :
                        answer' = [answer EXCEPT ![t] = <<"some", found \cap Having(logins)>>]
        /\ UNCHANGED <<flags, login, password>>

(* The client may never hear of the account.                               *)
Open(t, u, l, p) ==
    /\ answer[t] = <<"free", l>>
    /\ login[u] = None
    /\ unique => l \notin Taken
    /\ login' = [login EXCEPT ![u] = l]
    /\ password' = [password EXCEPT ![u] = p]
    /\ \E a \in {<<"registered", l, p, {u}>>, NoAnswer} : answer' = [answer EXCEPT ![t] = a]
    /\ UNCHANGED flags

(* The answer is sent, or will never be.                                   *)
Finish(T) ==
    /\ answer' = [t \in Tasks |-> IF t \in T THEN NoAnswer ELSE answer[t]]
    /\ UNCHANGED <<flags, login, password>>

Forget ==
    /\ ~lasting
    /\ login' = [u \in UserIds |-> None]
    /\ password' = [u \in UserIds |-> None]
    /\ answer' = [t \in Tasks |-> NoAnswer]
    /\ UNCHANGED flags

Next ==
    \/ \E T \in SUBSET Tasks : Finish(T)
    \/ \E t \in Tasks, u \in UserIds, l \in Logins, p \in Passwords : Open(t, u, l, p)
    \/ \E t \in Tasks : Answer(t) \/ EndScan(t)
    \/ Forget

Spec == Init /\ [][Next]_registryVars
=============================================================================
