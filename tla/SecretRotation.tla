--------------------------- MODULE SecretRotation ----------------------------
(***************************************************************************)
(* Rotation of the X-Internal-Auth secret.  A server process reads its     *)
(* settings once, get_settings being cached for the life of the process,   *)
(* and accepts the primary or the secondary secret it has read.  The       *)
(* operator changes the configured secrets, one at a time, and redeploys;  *)
(* any server may also die and be started again at any moment, and then    *)
(* reads what is configured by then.  The operator's procedure is that of  *)
(* docs/operations/sop/secret-rotation.md section 2; its rollback (section *)
(* 7) is left out.  Operator and callers (Next.js) are external; a caller  *)
(* keeps the secret it switched to.  Secrets are numbered in the order of  *)
(* their creation.                                                         *)
(***************************************************************************)
EXTENDS Integers

CONSTANTS
    Servers,        \* processes of the service
    Callers,        \* instances of Next.js
    MaxRotations,   \* bound on the number of rotations
    NoSecret,       \* the empty string
    None            \* no request in flight

Secrets == 0..MaxRotations
Settings == [primary : Secrets, secondary : Secrets \union {NoSecret}]

\* A request on its way: the server it was sent to and its X-Internal-Auth.
RequestsInFlight == [server : Servers, secret : Secrets]

ASSUME RotationAssumption ==
    /\ MaxRotations \in Nat
    /\ NoSecret \notin Secrets
    /\ None \notin RequestsInFlight

VARIABLES
    config,         \* the secrets the deployment is configured with
    settings,       \* what get_settings returns in each server process
    using,          \* the secret each caller sends
    inFlight,       \* the request each caller waits for, or None
    phase,          \* what the operator has done last
    refused         \* history: callers that were answered 401

vars == <<config, settings, using, inFlight, phase, refused>>

Phases == {"stable", "added", "switching", "promoted", "cleared"}

Init ==
    /\ config = [primary |-> 0, secondary |-> NoSecret]
    /\ settings = [s \in Servers |-> config]
    /\ using = [c \in Callers |-> 0]
    /\ inFlight = [c \in Callers |-> None]
    /\ phase = "stable"
    /\ refused = {}

-----------------------------------------------------------------------------
(***************************************************************************)
(* The service.                                                            *)
(***************************************************************************)

\* Either key, a key that is not configured matching nothing.
Accepts(cfg, secret) ==
    \E key \in {cfg.primary, cfg.secondary} : key # NoSecret /\ secret = key

\* A server is redeployed, or dies and is started again: its connections are
\* cut, and get_settings of the new process reads what is configured.
Restart(s) ==
    /\ settings' = [settings EXCEPT ![s] = config]
    /\ inFlight' = [c \in Callers |->
                      IF inFlight[c] # None /\ inFlight[c].server = s THEN None
                                                                      ELSE inFlight[c]]
    /\ UNCHANGED <<config, using, phase, refused>>

\* Mutant of Check: the settings are read for every request.
CheckUncached(c) ==
    /\ inFlight[c] # None
    /\ refused' = IF Accepts(config, inFlight[c].secret)
                  THEN refused ELSE refused \union {c}
    /\ inFlight' = [inFlight EXCEPT ![c] = None]
    /\ UNCHANGED <<config, settings, using, phase>>

\* require_tenant_context, with the cached settings of its process.
Check(c) ==
    /\ inFlight[c] # None
    /\ refused' = IF Accepts(settings[inFlight[c].server], inFlight[c].secret)
                  THEN refused ELSE refused \union {c}
    /\ inFlight' = [inFlight EXCEPT ![c] = None]
    /\ UNCHANGED <<config, settings, using, phase>>

-----------------------------------------------------------------------------
(***************************************************************************)
(* Its callers and its operator.                                           *)
(***************************************************************************)
Send(c, s) ==
    /\ inFlight[c] = None
    /\ inFlight' = [inFlight EXCEPT ![c] = [server |-> s, secret |-> using[c]]]
    /\ UNCHANGED <<config, settings, using, phase, refused>>

\* Mutant of Switch: a caller switches whenever it likes.
SwitchAnytime(c) ==
    /\ using[c] # config.secondary
    /\ using' = [using EXCEPT ![c] = config.secondary]
    /\ UNCHANGED <<config, settings, inFlight, phase, refused>>

Switch(c) ==
    /\ phase = "switching"
    /\ using[c] # config.secondary
    /\ using' = [using EXCEPT ![c] = config.secondary]
    /\ UNCHANGED <<config, settings, inFlight, phase, refused>>

\* Every server has been redeployed since the configuration was last changed.
Redeployed == \A s \in Servers : settings[s] = config

Step(from, to) ==
    /\ phase = from
    /\ phase' = to
    /\ UNCHANGED <<settings, using, inFlight, refused>>

AddSecondary ==
    /\ config.primary < MaxRotations
    /\ Step("stable", "added")
    /\ config' = [config EXCEPT !.secondary = config.primary + 1]

BeginSwitching ==
    /\ Redeployed
    /\ Step("added", "switching")
    /\ UNCHANGED config

Promote ==
    /\ \A c \in Callers : using[c] = config.secondary
    /\ Step("switching", "promoted")
    /\ config' = [config EXCEPT !.primary = config.secondary]

ClearSecondary ==
    /\ Step("promoted", "cleared")
    /\ config' = [config EXCEPT !.secondary = NoSecret]

\* Mutant of Finish: the last redeployment is not waited for.
FinishEarly ==
    /\ Step("cleared", "stable")
    /\ UNCHANGED config

Finish ==
    /\ Redeployed
    /\ Step("cleared", "stable")
    /\ UNCHANGED config

Operate ==
    AddSecondary \/ BeginSwitching \/ Promote \/ ClearSecondary \/ Finish

Next ==
    \/ Operate
    \/ \E s \in Servers : Restart(s)
    \/ \E c \in Callers : Switch(c) \/ Check(c) \/ \E s \in Servers : Send(c, s)

Spec == Init /\ [][Next]_vars

-----------------------------------------------------------------------------
(***************************************************************************)
(* Properties.                                                             *)
(***************************************************************************)

\* Every variable has the shape the code gives it.
TypeOK ==
    /\ config \in Settings
    /\ settings \in [Servers -> Settings]
    /\ using \in [Callers -> Secrets]
    /\ inFlight \in [Callers -> RequestsInFlight \union {None}]
    /\ phase \in Phases
    /\ refused \subseteq Callers

\* Rotation without downtime: no caller is ever answered 401, whichever servers
\* run on settings of which step, whenever they are restarted, and however long
\* a request with the old secret has been under way.
NobodyIsRefused == refused = {}

\* The oldest secret the procedure still lets in.
Oldest ==
    IF phase \in {"promoted", "cleared"} THEN config.primary - 1 ELSE config.primary

\* A secret that was rotated out is never accepted again by any server, and
\* while no rotation is going on none but the current one is.
RetiredStaysRefused ==
    \A s \in Servers, secret \in Secrets : Accepts(settings[s], secret) =>
        /\ secret >= Oldest
        /\ phase = "stable" => secret = config.primary

-----------------------------------------------------------------------------
(***************************************************************************)
(* The inductive invariant.                                                *)
(***************************************************************************)

\* What is configured in each phase.
ConfigMatchesPhase ==
    /\ phase \in {"stable", "cleared"} => config.secondary = NoSecret
    /\ phase \in {"added", "switching"} =>
          config.secondary \in Secrets /\ config.secondary = config.primary + 1
    /\ phase = "promoted" => config.secondary = config.primary
    /\ phase \in {"promoted", "cleared"} => config.primary > 0

\* The settings a server may still run on in each phase.
SettingsMatchPhase ==
    \A s \in Servers :
        LET p == config.primary
        IN  \/ settings[s] = config
            \/ /\ phase = "added"
               /\ settings[s] = [primary |-> p, secondary |-> NoSecret]
            \/ /\ phase \in {"promoted", "cleared"}
               /\ settings[s] = [primary |-> p - 1, secondary |-> p]
            \/ /\ phase = "cleared"
               /\ settings[s] = [primary |-> p, secondary |-> p]

\* The secrets callers use in each phase.
CallersMatchPhase ==
    \A c \in Callers :
        \/ using[c] = config.primary
        \/ phase = "switching" /\ using[c] = config.secondary

\* The process a request was sent to accepts it: settings are read once, and a
\* process that reads others takes the request down with it.
RequestsAreWelcome ==
    \A c \in Callers : inFlight[c] # None =>
        Accepts(settings[inFlight[c].server], inFlight[c].secret)

RotationInv ==
    /\ TypeOK
    /\ NobodyIsRefused
    /\ ConfigMatchesPhase
    /\ SettingsMatchPhase
    /\ CallersMatchPhase
    /\ RequestsAreWelcome
=============================================================================
