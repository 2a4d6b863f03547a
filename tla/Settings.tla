------------------------------ MODULE Settings ------------------------------
(***************************************************************************)
(* How the values of queral.conf become the settings of the daemon (main   *)
(* and the readers of config_utils.c), and what depends on them: how many  *)
(* workers there are, which memcached servers each one connects to, how    *)
(* long it sleeps after a line, and that what was allocated is freed once. *)
(*                                                                         *)
(* libconfig, cURL and libmemcached are external.  A configuration is a    *)
(* record of the values as written; a value may be missing.  Memory that   *)
(* must not be used, and a text printed into a buffer that is too small    *)
(* for it, lead to the phase "undefined", where the model stops.           *)
(***************************************************************************)
EXTENDS Integers, Sequences, FiniteSets, SequencesExt, ConfigLists

CONSTANTS Configs,            \* the configurations
          Servers,            \* "hostname:port" of the complete server entries
          LongServers,        \* those too long for a message of the log
          MaxWorkers, DefaultWorkers,
          MaxContention, DefaultContention,
          MaxPrefix, DefaultPrefix,  \* lengths, MAX_KEY_PREFIX_LENGTH with the NUL
          DefaultExpiration,
          RandMax,            \* bound on rand ()
          Absent,             \* a setting that is missing
          Incomplete,         \* a server without a hostname or a port
          Overlong,           \* one whose "hostname:port" is longer than a line
          Null

Workers == 1 .. MaxWorkers

Numbers == Int \union {Absent}

ASSUME SettingsAssumption ==
  /\ MaxWorkers \in Nat /\ DefaultWorkers \in Workers
  /\ MaxContention \in Nat /\ DefaultContention \in 0 .. MaxContention
  /\ MaxPrefix \in Nat /\ DefaultPrefix \in 0 .. MaxPrefix - 1
  /\ DefaultExpiration \in Nat
  /\ RandMax \in Nat
  /\ Absent \notin Int
  /\ \A c \in Configs :
       /\ DOMAIN c = {"threads", "contention", "servers", "prefix", "expiration"}
       /\ {c.threads, c.contention, c.expiration} \subseteq Numbers
       /\ c.prefix \in Nat \union {Absent}
       /\ c.servers = Absent \/ c.servers \in Seq(Servers \union {Incomplete, Overlong})
  /\ LongServers \subseteq Servers
  /\ Null \notin Servers

VARIABLES
  config,            \* the configuration
  phase,             \* main: "read", "start", "serve", "exited", "undefined"
  workers_count,
  worker_contention,
  memcached_servers, \* the list; <<>> for NULL
  prefixLength,      \* strlen (key_prefix)
  expiration,
  freed,             \* the strings of the list that were freed
  pc,                \* pc[w]: "none", "new", "connect", "ready", "ended"
  next,              \* next[w]: the server it looks at next
  connected,         \* connected[w]: the servers memcached knows of
  field,             \* field[w]: memcached.servers, "junk", "null" or "freed"
  frees,             \* frees[w]: how often its clients were destroyed
  delay              \* the last delay of a worker

settings == <<workers_count, worker_contention, memcached_servers, prefixLength,
              expiration>>
worker == <<pc, next, connected, field, frees>>
vars == <<config, phase, settings, freed, worker, delay>>

Init ==
  /\ config \in Configs
  /\ phase = "read"
  /\ workers_count = 0
  /\ worker_contention = 0
  /\ memcached_servers = <<>>
  /\ prefixLength = 0
  /\ expiration = 0
  /\ freed = {}
  /\ pc = [w \in Workers |-> "none"]
  /\ next = [w \in Workers |-> 1]
  /\ connected = [w \in Workers |-> <<>>]
  /\ field = [w \in Workers |-> "junk"]
  /\ frees = [w \in Workers |-> 0]
  /\ delay = 0

-----------------------------------------------------------------------------
(* Mutants.                                                                *)

\* No maximum.
Unclamped(v, max, default) == IF v = Absent THEN default ELSE v

\* An incomplete entry leaves its place in the list empty.
StoredInPlace(entries) ==
  [k \in DOMAIN entries |-> IF entries[k] = Incomplete THEN Null ELSE entries[k]]

\* break for continue.
StoredToFirstIncomplete(entries) ==
  [k \in DOMAIN entries |->
     IF \E m \in 1 .. k : entries[m] = Incomplete THEN Null ELSE entries[k]]

\* memc->servers = NULL forgotten after the list is freed.
FieldLeft == "freed"

\* The early return of a worker without curl_destroy and memcached_destroy.
FreesOnError(w) == frees[w]

-----------------------------------------------------------------------------
(* The readers.                                                            *)

\* read_workers_count and read_worker_contention with main's clamps: both
\* compare the pointer with 0L, so a negative number is as good as any other.
Clamped(v, max, default) ==
  IF v = Absent THEN default ELSE IF v > max THEN max ELSE v

\* read_memcached_key_prefix, here with its length.
Prefix(v) == IF v = Absent \/ v >= MaxPrefix THEN DefaultPrefix ELSE v

\* read_memcached_expiration, which does look at the value.
Expiration(v) == IF v = Absent \/ v < 0 THEN DefaultExpiration ELSE v

\* read_memcached_servers: the complete entries, and NULL in the places left.
Complete(entries) == Kept(entries, Incomplete)
Stored(entries) ==
  [k \in DOMAIN entries |->
     IF k <= Len(Complete(entries)) THEN Complete(entries)[k] ELSE Null]

\* destroy_string_list stops at the first NULL.
StringsFreed ==
  {k \in DOMAIN memcached_servers : \A m \in 1 .. k : memcached_servers[m] # Null}

-----------------------------------------------------------------------------
(* main.                                                                   *)

\* sprintf prints each complete server into a line of MAX_LINE_LENGTH bytes.
FitsLine(entries) == Overlong \notin Range(entries)

ReadSettings ==
  /\ phase = "read"
  /\ workers_count' = Clamped(config.threads, MaxWorkers, DefaultWorkers)
  /\ worker_contention' =
       Clamped(config.contention, MaxContention, DefaultContention)
  /\ \/ /\ config.servers \in {Absent, <<>>}
        /\ phase' = "exited"
        /\ UNCHANGED <<memcached_servers, prefixLength, expiration>>
     \/ /\ config.servers \notin {Absent, <<>>}
        /\ ~FitsLine(config.servers)
        /\ phase' = "undefined"
        /\ UNCHANGED <<memcached_servers, prefixLength, expiration>>
     \/ /\ config.servers \notin {Absent, <<>>}
        /\ FitsLine(config.servers)
        /\ phase' = "start"
        /\ memcached_servers' = Stored(config.servers)
        /\ prefixLength' = Prefix(config.prefix)
        /\ expiration' = Expiration(config.expiration)
  /\ UNCHANGED <<config, freed, worker, delay>>

\* exit_, when a later step of the start fails or after the last join.
Exit ==
  /\ \/ phase = "start"
     \/ phase = "serve" /\ \A w \in Workers : pc[w] \in {"none", "ended"}
  /\ phase' = "exited"
  /\ freed' = StringsFreed
  /\ UNCHANGED <<config, settings, worker, delay>>

\* The pool and the array of thread ids have workers_count elements, the latter
\* on the stack: its length must be positive.
StartWorkers ==
  /\ phase = "start"
  /\ \/ phase' = "serve"
     \/ workers_count <= 0 /\ phase' = "undefined"
  /\ pc' = [w \in Workers |-> IF w <= workers_count THEN "new" ELSE "none"]
  /\ UNCHANGED <<config, settings, freed, next, connected, field, frees, delay>>

-----------------------------------------------------------------------------
(* worker_thread.                                                          *)

\* curl_init and memcached_init; the test in curl_init is of its argument.
InitClients(w) ==
  /\ phase = "serve" /\ pc[w] = "new"
  /\ pc' = [pc EXCEPT ![w] = "connect"]
  /\ UNCHANGED <<config, phase, settings, freed, next, connected, field, frees, delay>>

\* memc->servers when memcached_connect_ returns.
FieldAfterConnect == "null"

\* How often the clients have been destroyed after a failed connection.
FreesAfterError(w) == frees[w] + 1

\* curl_destroy and memcached_destroy, which frees what the field points to
\* unless it is NULL.
Destroy(was) == phase' = IF was = "null" THEN phase ELSE "undefined"

\* One turn of the loop over the servers; a NULL is passed over.
Server(w) == memcached_servers[next[w]]

Connect(w) ==
  /\ phase = "serve" /\ pc[w] = "connect"
  /\ next[w] <= Len(memcached_servers)
  /\ next' = [next EXCEPT ![w] = @ + 1]
  /\ \/ Server(w) = Null /\ UNCHANGED <<connected, field>>
     \/ /\ Server(w) # Null
        /\ field' = [field EXCEPT ![w] = FieldAfterConnect]
        /\ connected' = [connected EXCEPT ![w] = Append(@, Server(w))]
  /\ UNCHANGED <<config, phase, settings, freed, pc, frees, delay>>

\* A connection that fails is reported with the server's name, and the worker
\* ends.
FailConnect(w) ==
  /\ phase = "serve" /\ pc[w] = "connect"
  /\ next[w] <= Len(memcached_servers)
  /\ Server(w) # Null
  /\ \/ /\ Server(w) \in LongServers
        /\ phase' = "undefined"
        /\ UNCHANGED <<pc, field, frees>>
     \/ /\ Server(w) \notin LongServers
        /\ field' = [field EXCEPT ![w] = FieldAfterConnect]
        /\ Destroy(FieldAfterConnect)
        /\ frees' = [frees EXCEPT ![w] = FreesAfterError(w)]
        /\ pc' = [pc EXCEPT ![w] = "ended"]
  /\ UNCHANGED <<config, settings, freed, next, connected, delay>>

EndConnect(w) ==
  /\ phase = "serve" /\ pc[w] = "connect"
  /\ next[w] > Len(memcached_servers)
  /\ pc' = [pc EXCEPT ![w] = "ready"]
  /\ UNCHANGED <<config, phase, settings, freed, next, connected, field, frees, delay>>

\* rand () % (base + 1) as C has it: the sign of the divisor makes no difference.
Remainder(r, d) == IF d < 0 THEN r % (-d) ELSE r % d

\* sleep_millis after a line.
Sleep(w) ==
  /\ phase = "serve" /\ pc[w] = "ready"
  /\ \/ worker_contention + 1 = 0 /\ phase' = "undefined" /\ UNCHANGED delay
     \/ /\ worker_contention + 1 # 0
        /\ \E r \in 0 .. RandMax : delay' = Remainder(r, worker_contention + 1)
        /\ UNCHANGED phase
  /\ UNCHANGED <<config, settings, freed, worker>>

\* A stop order: the end of worker_thread.
Stop(w) ==
  /\ phase = "serve" /\ pc[w] = "ready"
  /\ pc' = [pc EXCEPT ![w] = "ended"]
  /\ Destroy(field[w])
  /\ frees' = [frees EXCEPT ![w] = @ + 1]
  /\ UNCHANGED <<config, settings, freed, next, connected, field, delay>>

Next ==
  \/ ReadSettings \/ StartWorkers \/ Exit
  \/ \E w \in Workers :
       \/ InitClients(w) \/ Connect(w) \/ FailConnect(w) \/ EndConnect(w)
       \/ Sleep(w) \/ Stop(w)

Spec == Init /\ [][Next]_vars

-----------------------------------------------------------------------------
(* Properties.                                                             *)
\* Ranges; the prefix fits key_prefix with its NUL, and there are never more
\* workers than MAX_WORKERS.
TypeOK ==
  /\ config \in Configs
  /\ phase \in {"read", "start", "serve", "exited", "undefined"}
  /\ workers_count \in Int /\ workers_count <= MaxWorkers
  /\ worker_contention \in Int
  /\ memcached_servers \in Seq(Servers \union {Null})
  /\ prefixLength \in 0 .. MaxPrefix - 1
  /\ expiration \in Nat
  /\ freed \subseteq DOMAIN memcached_servers
  /\ pc \in [Workers -> {"none", "new", "connect", "ready", "ended"}]
  /\ next \in [Workers -> Nat]
  /\ connected \in [Workers -> Seq(Servers)]
  /\ field \in [Workers -> {"junk", "null", "freed"}]
  /\ frees \in [Workers -> Nat]
  /\ delay \in Nat

\* A worker that takes lines is connected to the complete servers of the
\* configuration, each once and in their order, wherever the incomplete ones
\* stand between them (config_utils.c:101-131, queral.c:415-430).
UsesConfiguredServers ==
  \A w \in Workers : pc[w] = "ready" => connected[w] = Complete(config.servers)

\* Every worker destroys its clients once, whichever way it ends, and the
\* program frees every name in the list (queral.c:423-424, 526-527, 659-671,
\* string_utils.c:92-99).
FreedOnce ==
  /\ \A w \in Workers : frees[w] = IF pc[w] = "ended" THEN 1 ELSE 0
  /\ phase = "exited" =>
       \A k \in DOMAIN memcached_servers : memcached_servers[k] # Null => k \in freed

\* "Contention in milliseconds, maximum: 600000" (etc/queral.conf): a worker
\* never sleeps longer than configured, nor longer than the maximum, unless the
\* number is negative (config_utils.c:90-99, sleep_utils.c:28-32).
DelayBounded ==
  LET c == config.contention IN
  /\ delay > MaxContention => c # Absent /\ c < 0
  /\ c # Absent => (delay > c => c < 0)

\* The settings of this module lead to undefined behaviour in five ways only: no
\* worker at all, a contention of -1, a server whose name and port are longer
\* than a line, one whose name does not fit the message about a connection that
\* fails, and a list of servers none of which is complete, so that a worker
\* frees a pointer nobody has set (queral.c:260-263, sleep_utils.c:30,
\* config_utils.c:122, queral.c:421, memcached_client.c:33).
OnlyBadSettings ==
  phase = "undefined" =>
    \/ config.threads # Absent /\ config.threads <= 0
    \/ config.contention = -1
    \/ Range(config.servers) \intersect (LongServers \union {Overlong}) # {}
    \/ Complete(config.servers) = <<>>
=============================================================================
