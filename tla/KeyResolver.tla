----------------------------- MODULE KeyResolver -----------------------------
(***************************************************************************)
(* How `nonsudo verify` comes by the public key of a chain: the permanent  *)
(* cache and the local key directory, files shared by every verifier of a  *)
(* user, and the key server (packages/nonsudo/src/commands/verify.ts       *)
(* 42-150, schema-server/src/index.ts); beside it the resolution of the    *)
(* Python verifier (key_resolver.py).  A verifier is one process, so each  *)
(* of its system calls is a step and several verifiers interleave.         *)
(***************************************************************************)
EXTENDS Naturals

CONSTANTS Verifiers,    \* processes that run nonsudo verify
          Ids,          \* key ids; also the name of the key published for it
          LocalIds,     \* those whose key a proxy of this machine creates
          PublishedIds, \* those whose key its owner publishes
          BadIds,       \* key ids that isValidKeyId refuses
          SecretName,   \* the server's name of the secret of an id
          MaxFaults     \* things that go wrong

NoKeyDocs == {"absent", "empty", "junk", "malformed"}
Errors == {"none", "INVALID_KEY_ID", "KEY_NOT_CACHED", "KEY_FETCH_FAILED", "UNUSABLE"}

ASSUME KeyAssumption ==
  /\ Ids \cap (NoKeyDocs \cup Errors \cup BadIds) = {}
  /\ LocalIds \subseteq Ids /\ PublishedIds \subseteq Ids
  /\ DOMAIN SecretName = Ids
  /\ MaxFaults \in Nat

Secrets == {SecretName[i] : i \in Ids}

VARIABLES cache,    \* ~/.nonsudo/key-cache: id -> what its file holds
          local,    \* ~/.nonsudo/keys: id -> what its file holds
          server,   \* secret -> what it is set to
          pc,       \* verifier -> its next system call
          asked,    \* verifier -> the id it resolves
          offline,  \* verifier -> was it started with --offline?
          body,     \* verifier -> the document it has fetched
          result,   \* verifier -> the key's owner, or an error
          faults
files == <<cache, local, server>>
run == <<pc, asked, offline, body, result>>
vars == <<files, run, faults>>

\* parseJwkBytes: an OKP/Ed25519 document with an x, or it throws.
Parse(doc) == IF doc \in Ids THEN doc ELSE "UNUSABLE"

\* The route of the key server: 200 with the document, or 404.  A secret that
\* is not set or is no JSON is a 404; JSON that is no key is served.
Serve(i) == LET doc == server[SecretName[i]]
            IN  IF doc \in {"absent", "malformed"} THEN [ok |-> FALSE, body |-> "junk"]
                ELSE [ok |-> TRUE, body |-> doc]

\* As if any key of the directory would do.
LocalJwk_Any(i) == IF \E j \in Ids : local[j] \in Ids
                   THEN local[CHOOSE j \in Ids : local[j] \in Ids]
                   ELSE local[i]

\* The key that a JWK file in the local directory of keys is taken for.
LocalJwk(i) == local[i]

Goto(v, next) == pc' = [pc EXCEPT ![v] = next]
Answer(v, answer) == Goto(v, "done") /\ result' = [result EXCEPT ![v] = answer]

Init == /\ cache = [i \in Ids |-> "absent"]
        /\ local = [i \in Ids |-> "absent"]
        /\ server = [s \in Secrets |-> "absent"]
        /\ pc = [v \in Verifiers |-> "done"]
        /\ asked = [v \in Verifiers |-> "none"]
        /\ offline = [v \in Verifiers |-> FALSE]
        /\ body = [v \in Verifiers |-> "absent"]
        /\ result = [v \in Verifiers |-> "none"]
        /\ faults = 0

-----------------------------------------------------------------------------
(* resolvePublicKey *)

Start(v, i, off) ==
  /\ pc[v] = "done"
  /\ Goto(v, "cache")
  /\ asked' = [asked EXCEPT ![v] = i]
  /\ offline' = [offline EXCEPT ![v] = off]
  /\ result' = [result EXCEPT ![v] = "none"]
  /\ UNCHANGED <<files, body, faults>>

Refuse(v, i) ==
  /\ pc[v] = "done"
  /\ asked' = [asked EXCEPT ![v] = i]
  /\ Answer(v, "INVALID_KEY_ID")
  /\ UNCHANGED <<files, offline, body, faults>>

LookInCache(v) ==
  /\ pc[v] = "cache"
  /\ Goto(v, IF cache[asked[v]] # "absent" THEN "readCache" ELSE "local")
  /\ UNCHANGED <<files, asked, offline, body, result, faults>>

ReadCache(v) ==
  /\ pc[v] = "readCache"
  /\ Answer(v, Parse(cache[asked[v]]))
  /\ UNCHANGED <<files, asked, offline, body, faults>>

LookInKeys(v) ==
  /\ pc[v] = "local"
  /\ IF local[asked[v]] # "absent" THEN Goto(v, "readLocal") /\ UNCHANGED result
     ELSE IF offline[v] THEN Answer(v, "KEY_NOT_CACHED")
     ELSE Goto(v, "fetch") /\ UNCHANGED result
  /\ UNCHANGED <<files, asked, offline, body, faults>>

ReadLocal(v) ==
  /\ pc[v] = "readLocal"
  /\ Answer(v, Parse(LocalJwk(asked[v])))
  /\ UNCHANGED <<files, asked, offline, body, faults>>

\* As if the status of the answer were not looked at.
Fetched_AnyStatus(v) ==
  /\ Goto(v, "open")
  /\ body' = [body EXCEPT ![v] = Serve(asked[v]).body]
  /\ UNCHANGED result

\* The server answers; what is not ok is an error, and nothing is cached.
Fetched(v) ==
  /\ IF Serve(asked[v]).ok
     THEN /\ Goto(v, "open")
          /\ body' = [body EXCEPT ![v] = Serve(asked[v]).body]
          /\ UNCHANGED result
     ELSE Answer(v, "KEY_FETCH_FAILED") /\ UNCHANGED body

Fetch(v) == /\ pc[v] = "fetch"
            /\ Fetched(v)
            /\ UNCHANGED <<files, asked, offline, faults>>

FetchFails(v) == /\ pc[v] = "fetch"
                 /\ Answer(v, "KEY_FETCH_FAILED")
                 /\ UNCHANGED <<files, asked, offline, body, faults>>

\* writeFileSync truncates the cache file, then writes it; only then is the
\* document parsed.
OpenCache(v) ==
  /\ pc[v] = "open"
  /\ Goto(v, "write")
  /\ cache' = [cache EXCEPT ![asked[v]] = "empty"]
  /\ UNCHANGED <<local, server, asked, offline, body, result, faults>>

WriteCache(v) ==
  /\ pc[v] = "write"
  /\ cache' = [cache EXCEPT ![asked[v]] = body[v]]
  /\ Answer(v, Parse(body[v]))
  /\ body' = [body EXCEPT ![v] = "absent"]
  /\ UNCHANGED <<local, server, asked, offline, faults>>

-----------------------------------------------------------------------------
(* What happens around it *)

\* The proxy creates the file of its key and then writes it.
CreateLocal(i) ==
  /\ local[i] = "absent"
  /\ local' = [local EXCEPT ![i] = "empty"]
  /\ UNCHANGED <<cache, server, run, faults>>

WriteLocal(i) ==
  /\ local[i] = "empty"
  /\ local' = [local EXCEPT ![i] = i]
  /\ UNCHANGED <<cache, server, run, faults>>

\* cp ~/.nonsudo/keys/<id>.jwk ~/.nonsudo/key-cache/<id>.jwk
CopyToCache(i) ==
  /\ local[i] \in Ids
  /\ cache' = [cache EXCEPT ![i] = local[i]]
  /\ UNCHANGED <<local, server, run, faults>>

\* The owner of id i sets the secret, well or as something that is no JSON.
Publish(i, doc) ==
  /\ doc \in {i, "malformed"}
  /\ server' = [server EXCEPT ![SecretName[i]] = doc]
  /\ UNCHANGED <<cache, local, run, faults>>

Fault == faults < MaxFaults /\ faults' = faults + 1

\* JSON is published that is not an Ed25519 key.
PublishJunk(i) ==
  /\ Fault
  /\ server' = [server EXCEPT ![SecretName[i]] = "junk"]
  /\ UNCHANGED <<cache, local, run>>

\* Something else answers for the server, with a page and status 200.
AnsweredByAnother(v) ==
  /\ Fault
  /\ pc[v] = "fetch"
  /\ Goto(v, "open")
  /\ body' = [body EXCEPT ![v] = "junk"]
  /\ UNCHANGED <<files, asked, offline, result>>

\* The process is killed; another may be started in its place.
Crash(v) ==
  /\ Fault
  /\ pc[v] # "done"
  /\ Goto(v, "done")
  /\ body' = [body EXCEPT ![v] = "absent"]
  /\ UNCHANGED <<files, asked, offline, result>>

\* The owner copies a key file that the proxy has not finished.
CopyUnfinished(i) ==
  /\ Fault
  /\ local[i] = "empty"
  /\ cache' = [cache EXCEPT ![i] = "empty"]
  /\ UNCHANGED <<local, server, run>>

Step(v) == \/ \E i \in Ids, off \in BOOLEAN : Start(v, i, off)
           \/ \E i \in BadIds : Refuse(v, i)
           \/ LookInCache(v) \/ ReadCache(v) \/ LookInKeys(v) \/ ReadLocal(v)
           \/ Fetch(v) \/ FetchFails(v) \/ OpenCache(v) \/ WriteCache(v)
           \/ AnsweredByAnother(v) \/ Crash(v)
Next == \/ \E v \in Verifiers : Step(v)
        \/ \E i \in LocalIds : \/ CreateLocal(i) \/ WriteLocal(i)
                               \/ CopyToCache(i) \/ CopyUnfinished(i)
        \/ \E i \in PublishedIds : \/ \E doc \in {i, "malformed"} : Publish(i, doc)
                                   \/ PublishJunk(i)
Spec == Init /\ [][Next]_vars

-----------------------------------------------------------------------------
(* Resolution without the network, as one look at the files *)

TsResolve(i) == IF cache[i] # "absent" THEN Parse(cache[i])
                ELSE IF local[i] # "absent" THEN Parse(LocalJwk(i))
                ELSE "KEY_NOT_CACHED"

\* As if the local directory came first.
PyResolve_LocalFirst(i) == IF local[i] \in Ids THEN local[i]
                           ELSE IF cache[i] \in Ids THEN cache[i]
                           ELSE "None"

\* resolve_public_key of Python: a file that is no key is passed over.
PyResolve(i) == IF cache[i] \in Ids THEN cache[i]
                ELSE IF local[i] \in Ids THEN local[i]
                ELSE "None"

-----------------------------------------------------------------------------
(* Properties *)

\* Type invariant.
KeyTypeOK ==
  /\ cache \in [Ids -> Ids \cup {"absent", "empty", "junk"}]
  /\ local \in [Ids -> Ids \cup {"absent", "empty"}]
  /\ server \in [Secrets -> Ids \cup {"absent", "junk", "malformed"}]
  /\ pc \in [Verifiers -> {"done", "cache", "readCache", "local", "readLocal",
                           "fetch", "open", "write"}]
  /\ asked \in [Verifiers -> Ids \cup BadIds \cup {"none"}]
  /\ \A v \in Verifiers : pc[v] # "done" => asked[v] \in Ids
  /\ offline \in [Verifiers -> BOOLEAN]
  /\ body \in [Verifiers -> Ids \cup {"absent", "junk"}]
  /\ result \in [Verifiers -> Ids \cup Errors]
  /\ faults \in 0 .. MaxFaults

\* Whatever verifiers, proxies, publishers and copies interleave and whichever
\* file or answer the key came from, the key a verifier goes on with is the
\* key of the id it asked for, or one that its owner published under an id
\* that the key server cannot tell from it, the names of their secrets being
\* the same.  Ids whose secrets have names of their own are never mixed up.
KeyIsOwnOrAlias ==
  \A v \in Verifiers :
    result[v] \in Ids =>
      \/ result[v] = asked[v]
      \/ result[v] \in PublishedIds /\ SecretName[result[v]] = SecretName[asked[v]]

\* The cache is never cleaned (permanent), so what spoils it matters: a file in
\* it that is no key means that something went wrong, or that a verifier is
\* between truncating and writing it.  A server that does not know the key, or
\* a network that is down, leaves nothing behind.
SpoiltHasCause ==
  \A i \in Ids :
    cache[i] \in {"empty", "junk"} =>
      faults > 0 \/ \E v \in Verifiers : pc[v] = "write" /\ asked[v] = i

\* The two implementations agree on keys: when the TypeScript verifier gets a
\* key without the network, the Python verifier gets the same one.
PythonResolvesToo ==
  \A i \in Ids : TsResolve(i) \in Ids => PyResolve(i) = TsResolve(i)

\* trust-model.md 57-59: a fetched document is "cached on success".  It is
\* cached before it is parsed, and a document that is no key stays for ever,
\* in front of the local key.
CachedOnSuccess == \A i \in Ids : cache[i] # "junk"

=============================================================================
