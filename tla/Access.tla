-------------------------------- MODULE Access --------------------------------
(***************************************************************************)
(* The password, the sessions and the login limiter.  The hash and the     *)
(* secret that signs the cookies live in admin_settings; nothing locks     *)
(* them between the statement that reads one and the one that writes it.   *)
(* A cookie is the key it was signed with: its expiry and its payload are  *)
(* left out, and so is logout, which only clears the browser's copy.       *)
(* The limiter's comment says per-IP; its key is r.RemoteAddr, which the   *)
(* router's RealIP sets to the address the proxy names, and which is an    *)
(* address and a port of the caller when no proxy names one.               *)
(***************************************************************************)
EXTENDS Integers, Sequences, FiniteSets, Selections

CONSTANTS
  Passwords, Keys,  \* passwords long enough; random secrets
  None,             \* no such row in admin_settings
  Remotes,          \* values of r.RemoteAddr, by which the limiter tells callers
  Workers,          \* request goroutines
  Limit, Window,    \* logins each Window and remote (5 a minute in the code)
  Logins,           \* bound: login requests
  Others,           \* bound: other requests
  Ticks             \* bound: the clock

ASSUME AccessAssumption ==
  /\ None \notin Passwords \cup Keys
  /\ {Limit, Window, Logins, Others, Ticks} \subseteq Nat

VARIABLES
  hash,      \* password_hash
  secret,    \* session_secret
  cookies,   \* the keys of the cookies handed out
  attempts,  \* loginLimiter: the times it remembers, by remote
  tried,     \* history: the times of all logins let through, by remote
  boots,     \* history: when the process restarted
  now,       \* the monotonic clock
  pc, job,   \* what each goroutine does next, and its local variables
  blind,     \* history: a setup went on although the password was not read
  left       \* what remains of Logins and Others

vars == <<hash, secret, cookies, attempts, tried, boots, now, pc, job, blind, left>>

NoJob == [act |-> "none", word |-> None]

Init ==
  /\ hash = None /\ secret = None
  /\ cookies = {}
  /\ attempts = [a \in Remotes |-> <<>>]
  /\ tried = [a \in Remotes |-> <<>>]
  /\ boots = <<>>
  /\ now = 0
  /\ pc = [w \in Workers |-> "idle"]
  /\ job = [w \in Workers |-> NoJob]
  /\ blind = FALSE
  /\ left = [login |-> Logins, other |-> Others]

Begin(w, k, p, act, word) ==
  /\ pc[w] = "idle" /\ left[k] > 0
  /\ left' = [left EXCEPT ![k] = @ - 1]
  /\ pc' = [pc EXCEPT ![w] = p]
  /\ job' = [job EXCEPT ![w] = [act |-> act, word |-> word]]

At(w, p) == pc[w] = p
Goto(w, p) == pc' = [pc EXCEPT ![w] = p] /\ UNCHANGED <<job, left>>
Finish(w) ==
  /\ pc' = [pc EXCEPT ![w] = "idle"] /\ job' = [job EXCEPT ![w] = NoJob]
  /\ UNCHANGED left

KeepLimiter == UNCHANGED <<attempts, tried, boots, now>>
KeepRows == UNCHANGED <<hash, secret>>
KeepSession == UNCHANGED <<cookies, blind>>

Recent(a) == SelectAt(attempts[a], {n \in DOMAIN attempts[a] : attempts[a][n] > now - Window})

\* Slip: the limiter forgets the window whenever it lets a login through.
LoginForgets(w, a, word) ==
  /\ IF Len(Recent(a)) >= Limit
     THEN /\ UNCHANGED <<attempts, tried, pc, job>>
          /\ left["login"] > 0 /\ left' = [left EXCEPT !["login"] = @ - 1]
     ELSE /\ attempts' = [attempts EXCEPT ![a] = <<now>>]
          /\ tried' = [tried EXCEPT ![a] = Append(@, now)]
          /\ Begin(w, "login", "password", "login", word)
  /\ KeepRows /\ KeepSession /\ UNCHANGED <<boots, now>>

\* checkLoginRate under its mutex, then the password.
Login(w, a, word) ==
  /\ IF Len(Recent(a)) >= Limit
     THEN /\ attempts' = [attempts EXCEPT ![a] = Recent(a)]
          /\ left["login"] > 0 /\ left' = [left EXCEPT !["login"] = @ - 1]
          /\ UNCHANGED <<tried, pc, job>>
     ELSE /\ attempts' = [attempts EXCEPT ![a] = Append(Recent(a), now)]
          /\ tried' = [tried EXCEPT ![a] = Append(@, now)]
          /\ Begin(w, "login", "password", "login", word)
  /\ KeepRows /\ KeepSession /\ UNCHANGED <<boots, now>>

CheckPassword(w) ==
  /\ At(w, "password")
  /\ \/ hash # None /\ hash = job[w].word /\ Goto(w, "secret")
     \/ Finish(w)
  /\ KeepRows /\ KeepSession /\ KeepLimiter

Setup(w, word) ==
  /\ Begin(w, "other", "setup", "setup", word)
  /\ KeepRows /\ KeepSession /\ KeepLimiter

\* Slip: the flag of the wizard is trusted, and the row not read.
CheckSetupNever(w) ==
  /\ At(w, "setup") /\ Goto(w, "set")
  /\ KeepRows /\ KeepSession /\ KeepLimiter

\* "already configured"; the error of the read is dropped.
CheckSetup(w) ==
  /\ At(w, "setup")
  /\ \/ hash # None /\ Finish(w) /\ UNCHANGED blind
     \/ hash = None /\ Goto(w, "set") /\ UNCHANGED blind
     \/ hash # None /\ Goto(w, "set") /\ blind' = TRUE
  /\ KeepRows /\ UNCHANGED cookies /\ KeepLimiter

SetPassword(w) ==
  /\ At(w, "set")
  /\ \/ hash' = job[w].word /\ Goto(w, "secret")
     \/ UNCHANGED hash /\ Finish(w)
  /\ UNCHANGED secret /\ KeepSession /\ KeepLimiter

\* A protected route, or the status, with a cookie that has not expired,
\* whoever signed it; the former asks for the password row first.
Call(w) ==
  /\ \E p \in {"guard", "secret"} : Begin(w, "other", p, "call", None)
  /\ KeepRows /\ KeepSession /\ KeepLimiter

Guard(w) ==
  /\ At(w, "guard")
  /\ \/ hash # None /\ Goto(w, "secret")
     \/ Finish(w)
  /\ KeepRows /\ KeepSession /\ KeepLimiter

-----------------------------------------------------------------------------
(* getSecret, for CreateSession and for ValidateSession alike.             *)

HandOut(w, key) ==
  /\ cookies' = IF job[w].act = "call" THEN cookies ELSE cookies \cup {key}
  /\ Finish(w)

\* Slip: a new secret for every session.
ReadSecretNever(w) ==
  /\ At(w, "secret") /\ Goto(w, "generate")
  /\ KeepRows /\ KeepSession /\ KeepLimiter

ReadSecret(w) ==
  /\ At(w, "secret")
  /\ \/ secret # None /\ HandOut(w, secret)
     \/ secret = None /\ Goto(w, "generate") /\ UNCHANGED cookies
     \/ Finish(w) /\ UNCHANGED cookies
  /\ KeepRows /\ UNCHANGED blind /\ KeepLimiter

\* Random bytes are new.
Generate(w) ==
  /\ At(w, "generate")
  /\ \/ \E k \in Keys \ (cookies \cup {secret}) : secret' = k /\ HandOut(w, k)
     \/ UNCHANGED <<secret, cookies>> /\ Finish(w)
  /\ UNCHANGED <<hash, blind>> /\ KeepLimiter

-----------------------------------------------------------------------------
Tick ==
  /\ now < Ticks /\ now' = now + 1
  /\ KeepRows /\ KeepSession /\ UNCHANGED <<attempts, tried, boots, pc, job, left>>

\* The process restarts: the limiter forgets, the rows and the cookies stay,
\* and the logins it let through have happened all the same.
Restart ==
  /\ left["other"] > 0 /\ left' = [left EXCEPT !["other"] = @ - 1]
  /\ attempts' = [a \in Remotes |-> <<>>]
  /\ boots' = Append(boots, now)
  /\ pc' = [w \in Workers |-> "idle"]
  /\ job' = [w \in Workers |-> NoJob]
  /\ KeepRows /\ KeepSession /\ UNCHANGED <<tried, now>>

Step(w) ==
  \/ CheckPassword(w) \/ CheckSetup(w) \/ SetPassword(w) \/ Guard(w)
  \/ ReadSecret(w) \/ Generate(w)

Next ==
  \/ \E w \in Workers, word \in Passwords :
       \/ \E a \in Remotes : Login(w, a, word)
       \/ Setup(w, word)
  \/ \E w \in Workers : Step(w) \/ Call(w)
  \/ Tick \/ Restart

Spec == Init /\ [][Next]_vars

-----------------------------------------------------------------------------
TypeOK ==
  /\ hash \in Passwords \cup {None} /\ secret \in Keys \cup {None}
  /\ cookies \subseteq Keys
  /\ attempts \in [Remotes -> Seq(Nat)] /\ tried \in [Remotes -> Seq(Nat)]
  /\ boots \in Seq(Nat)
  /\ now \in Nat /\ blind \in BOOLEAN
  /\ pc \in [Workers -> {"idle", "password", "setup", "set", "guard", "secret", "generate"}]
  /\ job \in [Workers -> [act : {"none", "login", "setup", "call"},
                          word : Passwords \cup {None}]]
  /\ left \in [{"login", "other"} -> Nat]

\* However logins are spaced and interleaved, no window holds more of one
\* remote that reached the password than Limit for the process that served at
\* its begin and Limit for each that was started in it: the limiter is in
\* memory only, so a restart lets Limit more in (api/auth.go:13-39).
InWindowAt(h, u) == {i \in DOMAIN h : u - Window < h[i] /\ h[i] <= u}
RateHolds ==
  \A a \in Remotes, t \in 0..now :
    Cardinality(InWindowAt(tried[a], t))
      <= Limit * (1 + Cardinality(InWindowAt(boots, t)))

AccessInv == TypeOK /\ RateHolds

\* Once there is a secret and nobody is about to write one, it never changes
\* again: every cookie signed with it works until it expires, whatever request
\* or restart comes (auth/auth.go:66-83).
Settled == secret # None /\ \A w \in Workers : pc[w] # "generate"
SecretSettles == [][Settled => Settled' /\ secret' = secret]_vars

\* A password once set, with no other setup past its check, is never replaced
\* by a setup, unless the check could not read it (api/auth.go:93-107).
Owned == hash # None /\ \A w \in Workers : pc[w] # "set"
PasswordSettles == [][Owned => (Owned' /\ hash' = hash) \/ blind']_vars
=============================================================================
