--------------------------- MODULE ToolCatalogue ---------------------------
(***************************************************************************)
(* Where the tools of a run come from: local tools, and those of the MCP   *)
(* servers, asked one after the other and kept for the life of the         *)
(* process.  Runs load the catalogue concurrently, servers come and go,    *)
(* and a load that takes too long is given up.                             *)
(***************************************************************************)
EXTENDS Naturals, Sequences

CONSTANTS ConfiguredServers,  \* entries of the settings, in order
          Endpoint,           \* transport and URL of each; NoEndpoint if incomplete
          NoEndpoint,
          LocalTools, Offers, \* names of the local tools; names each server offers
          Loaders,            \* runs that ask for tools at the same time
          MaxOutages          \* bound: changes of a server's availability

ASSUME CatalogueAssumption ==
  /\ ConfiguredServers \in Seq(DOMAIN Endpoint)
  /\ \A i, j \in 1 .. Len(ConfiguredServers) :
       ConfiguredServers[i] = ConfiguredServers[j] => i = j
  /\ MaxOutages \in Nat

VARIABLES
  up,                 \* servers that answer
  kept, cached,       \* _mcp_tools_cache: is there an entry; the servers in it
  lstage, asked, got, \* loads: how many servers were asked, which answered
  offered,            \* what get_tools returned: sequence of <<name, origin>>
  failedOnce,         \* history: servers that failed when they were asked
  gaveUp,             \* history: loads that timed out
  outages

catalogueVars == <<up, kept, cached, lstage, asked, got, offered, failedOnce, gaveUp, outages>>

(* _normalize_servers: incomplete entries and second names of one target   *)
(* are left out.                                                           *)
Kept(i) ==
  LET s == ConfiguredServers[i] IN
  /\ Endpoint[s] # NoEndpoint
  /\ \A j \in 1 .. i - 1 : Endpoint[ConfiguredServers[j]] # Endpoint[s]

NormalizedServers ==
  LET add[i \in 0 .. Len(ConfiguredServers)] ==
        IF i = 0 THEN <<>>
        ELSE IF Kept(i) THEN Append(add[i - 1], ConfiguredServers[i]) ELSE add[i - 1]
  IN  add[Len(ConfiguredServers)]

Servers == {NormalizedServers[i] : i \in 1 .. Len(NormalizedServers)}

(* _merge_tools: local tools first, then the servers in order; a name that *)
(* is already there is skipped.  S: the servers that were loaded.          *)
Merge(S) ==
  LET add[i \in 0 .. Len(NormalizedServers)] ==
        IF i = 0 THEN {<<n, "local">> : n \in LocalTools}
        ELSE LET s == NormalizedServers[i]
                 taken == {tool[1] : tool \in add[i - 1]}
             IN  IF s \in S THEN add[i - 1] \union {<<n, s>> : n \in Offers[s] \ taken}
                 ELSE add[i - 1]
  IN  add[Len(NormalizedServers)]

CatalogueInit ==
  /\ up \in SUBSET Servers
  /\ kept = FALSE /\ cached = {}
  /\ lstage = [l \in Loaders |-> "idle"]
  /\ asked = [l \in Loaders |-> 0]
  /\ got = [l \in Loaders |-> {}]
  /\ offered = [l \in Loaders |-> {}]
  /\ failedOnce = {} /\ gaveUp = {}
  /\ outages = 0

(* get_mcp_tools_with_fallback: nothing passes force_refresh.              *)
GetTools(l) ==
  /\ lstage[l] = "idle"
  /\ IF kept
       THEN /\ lstage' = [lstage EXCEPT ![l] = "served"]
            /\ offered' = [offered EXCEPT ![l] = Merge(cached)]
       ELSE lstage' = [lstage EXCEPT ![l] = "loading"] /\ UNCHANGED offered
  /\ UNCHANGED <<up, kept, cached, asked, got, failedOnce, gaveUp, outages>>

(* The next server; one that fails is skipped.                             *)
AskServer(l) ==
  LET s == NormalizedServers[asked[l] + 1] IN
  /\ lstage[l] = "loading"
  /\ asked[l] < Len(NormalizedServers)
  /\ asked' = [asked EXCEPT ![l] = @ + 1]
  /\ got' = [got EXCEPT ![l] = IF s \in up THEN @ \union {s} ELSE @]
  /\ failedOnce' = IF s \in up THEN failedOnce ELSE failedOnce \union {s}
  /\ UNCHANGED <<up, kept, cached, lstage, offered, gaveUp, outages>>

(* What was loaded is kept, complete or not.                               *)
FinishLoad(l) ==
  /\ lstage[l] = "loading"
  /\ asked[l] = Len(NormalizedServers)
  /\ lstage' = [lstage EXCEPT ![l] = "served"]
  /\ kept' = TRUE /\ cached' = got[l]
  /\ offered' = [offered EXCEPT ![l] = Merge(got[l])]
  /\ UNCHANGED <<up, asked, got, failedOnce, gaveUp, outages>>

(* Mutant: a load that is given up keeps what it has so far.               *)
KeepPartialLoad(l) ==
  /\ lstage[l] = "loading"
  /\ lstage' = [lstage EXCEPT ![l] = "served"]
  /\ kept' = TRUE /\ cached' = got[l]
  /\ offered' = [offered EXCEPT ![l] = Merge({})]
  /\ gaveUp' = gaveUp \union {l}
  /\ UNCHANGED <<up, asked, got, failedOnce, outages>>

(* _load_mcp_tools waits so long and no longer: local tools only.          *)
GiveUpLoad(l) ==
  /\ lstage[l] = "loading"
  /\ lstage' = [lstage EXCEPT ![l] = "served"]
  /\ offered' = [offered EXCEPT ![l] = Merge({})]
  /\ gaveUp' = gaveUp \union {l}
  /\ UNCHANGED <<up, kept, cached, asked, got, failedOnce, outages>>

(* A server goes down or comes back.                                       *)
ServerChanges(s) ==
  /\ outages < MaxOutages
  /\ outages' = outages + 1
  /\ up' = IF s \in up THEN up \ {s} ELSE up \union {s}
  /\ UNCHANGED <<kept, cached, lstage, asked, got, offered, failedOnce, gaveUp>>

CatalogueNext ==
  \/ \E l \in Loaders : GetTools(l) \/ AskServer(l) \/ FinishLoad(l) \/ GiveUpLoad(l)
  \/ \E s \in Servers : ServerChanges(s)

CatalogueSpec == CatalogueInit /\ [][CatalogueNext]_catalogueVars
----------------------------------------------------------------------------
(* Every variable keeps its type, and a load asks the servers in order.    *)
CatalogueTypeOK ==
  /\ cached \subseteq Servers
  /\ \A l \in Loaders : /\ lstage[l] \in {"idle", "loading", "served"}
                        /\ asked[l] \in 0 .. Len(NormalizedServers)
                        /\ got[l] \subseteq {NormalizedServers[i] : i \in 1 .. asked[l]}

(* A run misses the tools of a server only if its own load was given up or *)
(* some load of the process, however long ago, met the server down; and no *)
(* name is offered twice, a local tool never hidden.                       *)
GapsAreFailures ==
  \A l \in Loaders :
    lstage[l] = "served" =>
      /\ l \notin gaveUp =>
           \A s \in Servers \ failedOnce : \A n \in Offers[s] :
             \E tool \in offered[l] : tool[1] = n
      /\ \A tool, other \in offered[l] : tool[1] = other[1] => tool = other
      /\ \A n \in LocalTools : <<n, "local">> \in offered[l]
=============================================================================
