-------------------------------- MODULE Main --------------------------------
(***************************************************************************)
(* The process from its start, main.rs: the fetch of the default domains   *)
(* if asked for, then either the connectivity check and its exit, or the   *)
(* accept loop.  Composes Fetch, Check and Accept; while one of the three  *)
(* runs, the others stand still.                                           *)
(***************************************************************************)
EXTENDS Fetch, Check, Accept

CONSTANTS
  CfDomains    \* --cf-domain, in order

ASSUME MainAssumption == CfDomains \in Seq(Name)

VARIABLES
  phase,           \* "fetch", "check" or "serve"
  check,           \* --check
  default_domains, \* --default-domains
  cf_domains       \* config.cf_domains

mainVars ==
  <<phase, check, default_domains, cf_domains, fetchVars, checkVars, acceptVars>>

MainInit ==
  /\ phase = "fetch"
  /\ check \in BOOLEAN
  /\ default_domains \in BOOLEAN
  /\ cf_domains = CfDomains
  /\ FetchInit /\ CheckInit /\ AcceptInit

-----------------------------------------------------------------------------
Fetching ==
  /\ phase = "fetch" /\ default_domains
  /\ FetchNext
  /\ UNCHANGED <<phase, check, default_domains, cf_domains, checkVars, acceptVars>>

(* Fault: the fetched list is kept from the check.                         *)
FetchedForServer ==
  /\ phase = "fetch"
  /\ default_domains => fetchPc = "done"
  /\ cf_domains' = cf_domains \o (IF default_domains THEN domains ELSE <<>>)
  /\ FetchReturned
  /\ \/ check /\ phase' = "check" /\ CheckStart(cf_domains)
     \/ ~check /\ phase' = "serve" /\ UNCHANGED checkVars
  /\ UNCHANGED <<check, default_domains, acceptVars>>

(* cf_domains.extend(fetched), then the check or the bind of the listener. *)
Fetched ==
  /\ phase = "fetch"
  /\ default_domains => fetchPc = "done"
  /\ cf_domains' = cf_domains \o (IF default_domains THEN domains ELSE <<>>)
  /\ FetchReturned
  /\ \/ check /\ phase' = "check" /\ CheckStart(cf_domains')
     \/ ~check /\ phase' = "serve" /\ UNCHANGED checkVars
  /\ UNCHANGED <<check, default_domains, acceptVars>>

Checking ==
  /\ phase = "check"
  /\ CheckStep
  /\ UNCHANGED <<phase, check, default_domains, cf_domains, fetchVars, acceptVars>>

(* A step of the accept loop's part of the process.                        *)
Serve(step) ==
  /\ phase = "serve"
  /\ step
  /\ UNCHANGED <<phase, check, default_domains, cf_domains, fetchVars, checkVars>>

Serving == Serve(AcceptNext)

Exited == checkPc = "exit" /\ UNCHANGED mainVars

MainNext == Fetching \/ Fetched \/ Checking \/ Serving \/ Exited

(* Every wait of the fetch and of the probes is under a timeout.           *)
MainSpec ==
  /\ MainInit /\ [][MainNext]_mainVars
  /\ WF_mainVars(Fetching) /\ WF_mainVars(Fetched) /\ WF_mainVars(Checking)
  /\ WF_mainVars(Serve(Loop))
  /\ \A c \in Clients : WF_mainVars(Serve(Proceed(c)))

-----------------------------------------------------------------------------
TypeOK ==
  /\ phase \in {"fetch", "check", "serve"}
  /\ fetchPc \in {"connect", "tls", "headers", "length", "eof", "chunked",
                 "trailers", "done", "returned"}
  /\ why \in {"none", "ok", "network", "limit", "eof", "syntax", "status"}
  /\ checkPc \in {"idle", "probe", "settle", "exit"}
  /\ AcceptTypeOK

(***************************************************************************)
(* --check exits with 0 exactly when every endpoint the server would use,  *)
(* the fetched or built-in domains included, passed a probe of its own     *)
(* ("Done once here so both --check mode and the normal server path share  *)
(* the same fetched list"): no later success covers an earlier failure,    *)
(* and no endpoint is skipped.                                             *)
(***************************************************************************)
VerdictHonest == checkPc = "exit" => Honest(Endpoints(cf_domains))

(***************************************************************************)
(* Start-up ends: whatever the list's server, the Workers and the upstream *)
(* proxies do or fail to do, the process comes to its verdict or to its    *)
(* accept loop.                                                            *)
(***************************************************************************)
StartupEnds == <>(phase = "serve" \/ checkPc = "exit")

=============================================================================
