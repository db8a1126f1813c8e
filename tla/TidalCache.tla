----------------------------- MODULE TidalCache -----------------------------
(* What the Tidal client remembers (APIs/Tidal/Fetcher.go, Globals/Cache.go): *)
(* the bearer token and, for an hour, the stream URL of each track.  Both  *)
(* are looked up in the same way: look, lock, look again, ask the service, *)
(* store, unlock.  The token has one lock, which a look needs too; a track *)
(* has a lock of its own, which only those who ask the service take.       *)
(*                                                                         *)
(* The services are external: an answer comes after at most HttpTimeout,   *)
(* or an error does.  Time is a clock that any step may find advanced.     *)
EXTENDS Integers

CONSTANTS
  Caller,        \* goroutines that need a token or a URL
  Track,
  Token,         \* the key of the token
  TokenLife,     \* lifetimes the service may give to a token
  TokenMargin,   \* how much earlier it is taken for expired, 300 s in the code
  HttpTimeout,   \* of HTTPClient, 10 s in the code
  UrlLife,       \* of a cached URL, one hour in the code
  MaxClock,      \* bound: time
  MaxLookups     \* bound: lookups

ASSUME CacheAssumption ==
  /\ Token \notin Track /\ TokenLife \subseteq Nat
  /\ TokenMargin \in Nat /\ HttpTimeout \in Nat \ {0} /\ UrlLife \in Nat
  /\ 2 * HttpTimeout <= TokenMargin
  /\ MaxClock \in Nat /\ MaxLookups \in Nat

Key    == Track \cup {Token}
NoOne  == "no one"

VARIABLES
  clock,
  cached,    \* for each key, nothing or when its value expires
  locks,     \* who holds the lock of each key
  callers,   \* what each goroutine is doing
  given,     \* to each caller, when it last got a token from the cache, and
             \* until when that is accepted
  lookups

cacheVars == <<clock, cached, locks, callers, given, lookups>>

\* An entry: kept is TokenExpiry or CacheEntry.ExpiresAt; ends is when the
\* service stops accepting the token, which the code does not know.
Time  == Int
Nothing == [kept |-> -1, ends |-> -1]
CallerPcs == {"idle", "looking", "locking", "checking", "asking"}
IdleCaller == [pc |-> "idle", key |-> Token, since |-> 0]

CacheTypeOK ==
  /\ clock \in 0 .. MaxClock
  /\ \A k \in Key : cached[k].kept \in Time /\ cached[k].ends \in Time
  /\ \A k \in Key : locks[k] # NoOne =>
       callers[locks[k]].key = k /\ callers[locks[k]].pc \in {"checking", "asking"}
  /\ \A c \in Caller : callers[c].pc \in CallerPcs /\ callers[c].key \in Key
  /\ lookups \in 0 .. MaxLookups

CacheInit ==
  /\ clock = 0
  /\ cached = [k \in Key |-> Nothing]
  /\ locks = [k \in Key |-> NoOne]
  /\ callers = [c \in Caller |-> IdleCaller]
  /\ given = [c \in Caller |-> [Nothing EXCEPT !.ends = MaxClock + HttpTimeout]]
  /\ lookups = 0

-----------------------------------------------------------------------------
CallerGoesTo(c, pc) == callers' = [callers EXCEPT ![c].pc = pc, ![c].since = 0]

Unlock(k) == locks' = [locks EXCEPT ![k] = NoOne]

\* time.Now().Before(TokenExpiry), and the opposite of After(ExpiresAt).
Live(k) == IF k = Token THEN clock < cached[k].kept ELSE clock <= cached[k].kept

Give(c, k) ==
  given' = IF k = Token
             THEN [given EXCEPT ![c] = [kept |-> clock, ends |-> cached[k].ends]]
             ELSE given

Lookup(c, k) ==
  /\ callers[c].pc = "idle" /\ lookups < MaxLookups
  /\ lookups' = lookups + 1
  /\ callers' = [callers EXCEPT ![c] = [pc |-> "looking", key |-> k, since |-> 0]]
  /\ UNCHANGED <<clock, cached, locks, given>>

\* The first look.  While the token is fetched its lock is held for writing.
Look(c) ==
  LET k == callers[c].key
  IN  /\ callers[c].pc = "looking"
      /\ k = Token => locks[k] = NoOne
      /\ IF Live(k)
           THEN /\ callers' = [callers EXCEPT ![c] = IdleCaller]
                /\ Give(c, k)
           ELSE CallerGoesTo(c, "locking") /\ UNCHANGED given
      /\ UNCHANGED <<clock, cached, locks, lookups>>

LockKey(c) ==
  /\ callers[c].pc = "locking" /\ locks[callers[c].key] = NoOne
  /\ locks' = [locks EXCEPT ![callers[c].key] = c]
  /\ CallerGoesTo(c, "checking")
  /\ UNCHANGED <<clock, cached, given, lookups>>

\* Slip: whoever gets the lock asks the service.
AskAnyway(c) ==
  /\ callers[c].pc = "checking"
  /\ callers' = [callers EXCEPT ![c].pc = "asking", ![c].since = clock]
  /\ UNCHANGED <<clock, cached, given, locks, lookups>>

\* The second look, under the lock.
LookAgain(c) ==
  LET k == callers[c].key
  IN  /\ callers[c].pc = "checking"
      /\ IF Live(k)
           THEN /\ callers' = [callers EXCEPT ![c] = IdleCaller]
                /\ Give(c, k)
                /\ Unlock(k)
           ELSE /\ callers' = [callers EXCEPT ![c].pc = "asking", ![c].since = clock]
                /\ UNCHANGED <<given, locks>>
      /\ UNCHANGED <<clock, cached, lookups>>

\* Slip: the token is kept for as long as it lives.
TokenEntryWithoutMargin(issued, life) ==
  [kept |-> clock + life, ends |-> issued + life]

\* The service gave the token its lifetime when it issued it; the client counts
\* from when it has read the answer.
TokenEntry(issued, life) ==
  [kept |-> clock + life - TokenMargin, ends |-> issued + life]

\* Cache.Set with one hour; when a URL ceases to work is nowhere stated.
UrlEntry == [kept |-> clock + UrlLife, ends |-> clock + UrlLife]

Answer(c) ==
  LET k == callers[c].key
  IN  /\ callers[c].pc = "asking"
      /\ \E issued \in callers[c].since .. clock :
           \/ /\ k = Token
              /\ \E life \in TokenLife : cached' = [cached EXCEPT ![k] = TokenEntry(issued, life)]
           \/ /\ k # Token
              /\ cached' = [cached EXCEPT ![k] = UrlEntry]
      /\ callers' = [callers EXCEPT ![c] = IdleCaller]
      /\ Unlock(k)
      /\ UNCHANGED <<clock, given, lookups>>

\* Slip: an error returns without unlocking.
ErrorKeepsLock(c) ==
  /\ callers[c].pc = "asking"
  /\ callers' = [callers EXCEPT ![c] = IdleCaller]
  /\ UNCHANGED <<clock, cached, given, locks, lookups>>

\* Any error on the way: the call returns it, and the next in line asks again.
AnswerIsError(c) ==
  /\ callers[c].pc = "asking"
  /\ callers' = [callers EXCEPT ![c] = IdleCaller]
  /\ Unlock(callers[c].key)
  /\ UNCHANGED <<clock, cached, given, lookups>>

\* Nobody waits for a service longer than HttpTimeout.
Tick ==
  /\ clock < MaxClock
  /\ \A c \in Caller : callers[c].pc = "asking" => clock < callers[c].since + HttpTimeout
  /\ clock' = clock + 1
  /\ UNCHANGED <<cached, locks, callers, given, lookups>>

CallerStep(c) ==
  Look(c) \/ LockKey(c) \/ LookAgain(c) \/ Answer(c) \/ AnswerIsError(c)

CacheNext ==
  \/ Tick
  \/ \E c \in Caller : CallerStep(c) \/ \E k \in Key : Lookup(c, k)

CacheSpec == CacheInit /\ [][CacheNext]_cacheVars

\* A goroutine that can run does.  Those who wait for a mutex get it in turn in
\* Go; with finitely many lookups weak fairness is enough to say so.
CacheFairSpec == CacheSpec /\ \A c \in Caller : WF_cacheVars(CallerStep(c))

-----------------------------------------------------------------------------
(* Properties *)

\* A token taken from the cache is accepted for at least as long as a request
\* that carries it may take, however long the answer that brought it took.
TokenOutlastsRequest ==
  \A c \in Caller : given[c].ends >= given[c].kept + HttpTimeout

\* Callers who waited while another asked the service do not ask it again: a
\* service is asked only about what the cache does not have.
AskedOncePerLife ==
  [][\A c \in Caller : callers[c].pc = "checking" /\ callers'[c].pc = "asking"
       => ~ Live(callers[c].key)]_cacheVars

\* No lookup waits, with errors of others or without: what every behaviour comes to.
LookupsOver == \A c \in Caller : callers[c].pc = "idle"
=============================================================================
