------------------------ MODULE SecretRotationProofs -------------------------
(***************************************************************************)
(* Proofs about SecretRotation, for any number of servers, callers and     *)
(* rotations.                                                              *)
(***************************************************************************)
EXTENDS SecretRotation, TLAPS

USE DEF Secrets, Settings, RequestsInFlight, Phases

\* The parts of the inductive invariant a step of the operator can disturb.
PhaseInv == ConfigMatchesPhase /\ SettingsMatchPhase /\ CallersMatchPhase

\* Whatever a server runs on and a caller sends, the one accepts the other.
LEMMA CallersAreWelcome ==
    ASSUME TypeOK, PhaseInv, NEW s \in Servers, NEW c \in Callers
    PROVE  Accepts(settings[s], using[c])
<1>1. using[c] # NoSecret
  BY RotationAssumption DEF TypeOK
<1>2. CASE using[c] = config.primary
  <2>1. \/ settings[s].primary = config.primary
        \/ settings[s].secondary = config.primary
    BY DEF TypeOK, PhaseInv, SettingsMatchPhase
  <2>. QED
    BY <1>1, <1>2, <2>1 DEF Accepts
<1>3. CASE phase = "switching" /\ using[c] = config.secondary
  <2>1. settings[s] = config
    BY <1>3 DEF TypeOK, PhaseInv, SettingsMatchPhase
  <2>. QED
    BY <1>1, <1>3, <2>1 DEF Accepts
<1>. QED
  BY <1>2, <1>3 DEF PhaseInv, CallersMatchPhase

\* A process is replaced together with the requests it had: the others are
\* where they were, with the settings they were sent to.
LEMMA RestartStep ==
    ASSUME RotationInv, NEW s \in Servers, Restart(s)
    PROVE  RotationInv'
<1>1. TypeOK'
  BY DEF RotationInv, TypeOK, Restart
<1>2. NobodyIsRefused' /\ ConfigMatchesPhase' /\ CallersMatchPhase'
  BY DEF RotationInv, NobodyIsRefused, ConfigMatchesPhase, CallersMatchPhase, Restart
<1>3. SettingsMatchPhase'
  BY DEF RotationInv, TypeOK, SettingsMatchPhase, Restart
<1>4. RequestsAreWelcome'
  <2> SUFFICES ASSUME NEW c \in Callers, inFlight'[c] # None
               PROVE  Accepts(settings'[inFlight'[c].server], inFlight'[c].secret)
    BY DEF RequestsAreWelcome, Accepts
  <2>1. inFlight'[c] = inFlight[c] /\ inFlight[c].server # s /\ inFlight[c].server \in Servers
    BY DEF RotationInv, TypeOK, Restart
  <2>2. settings'[inFlight[c].server] = settings[inFlight[c].server]
    BY <2>1 DEF RotationInv, TypeOK, Restart
  <2>3. Accepts(settings[inFlight[c].server], inFlight[c].secret)
    BY <2>1 DEF RotationInv, RequestsAreWelcome
  <2>. QED
    BY <2>1, <2>2, <2>3
<1>. QED
  BY <1>1, <1>2, <1>3, <1>4 DEF RotationInv

\* A request is welcome when it is sent, and is checked against the settings it
\* was sent to.
LEMMA RequestStep ==
    ASSUME RotationInv, NEW c \in Callers,
           Check(c) \/ \E s \in Servers : Send(c, s)
    PROVE  RotationInv'
<1>1. UNCHANGED <<config, settings, using, phase>>
  BY DEF Check, Send
<1>2. ConfigMatchesPhase' /\ SettingsMatchPhase' /\ CallersMatchPhase'
  BY <1>1 DEF RotationInv, ConfigMatchesPhase, SettingsMatchPhase, CallersMatchPhase
<1>3. CASE Check(c)
  <2>1. TypeOK'
    BY <1>3 DEF RotationInv, TypeOK, Check
  <2>2. NobodyIsRefused'
    BY <1>3 DEF RotationInv, NobodyIsRefused, RequestsAreWelcome, Check
  <2>3. RequestsAreWelcome'
    BY <1>1, <1>3 DEF RotationInv, TypeOK, RequestsAreWelcome, Accepts, Check
  <2>. QED
    BY <1>2, <2>1, <2>2, <2>3 DEF RotationInv
<1>4. CASE \E s \in Servers : Send(c, s)
  <2>1. PICK s \in Servers : Send(c, s)
    BY <1>4
  <2>2. TypeOK' /\ NobodyIsRefused'
    BY <2>1 DEF RotationInv, TypeOK, NobodyIsRefused, Send
  <2>3. Accepts(settings[s], using[c])
    BY CallersAreWelcome DEF RotationInv, PhaseInv
  <2>4. RequestsAreWelcome'
    <3> SUFFICES ASSUME NEW d \in Callers, inFlight'[d] # None
                 PROVE  Accepts(settings[inFlight'[d].server], inFlight'[d].secret)
      BY <1>1 DEF RequestsAreWelcome, Accepts
    <3>1. CASE d = c
      BY <2>1, <2>3, <3>1 DEF RotationInv, TypeOK, Send
    <3>2. CASE d # c
      <4>1. inFlight'[d] = inFlight[d]
        BY <2>1, <3>2 DEF RotationInv, TypeOK, Send
      <4>. QED
        BY <4>1 DEF RotationInv, RequestsAreWelcome
    <3>. QED
      BY <3>1, <3>2
  <2>. QED
    BY <1>2, <2>2, <2>4 DEF RotationInv
<1>. QED
  BY <1>3, <1>4

\* A caller switches while every server runs on both secrets.
LEMMA SwitchStep ==
    ASSUME RotationInv, NEW c \in Callers, Switch(c)
    PROVE  RotationInv'
<1>1. TypeOK' /\ NobodyIsRefused'
  BY RotationAssumption DEF RotationInv, TypeOK, NobodyIsRefused, ConfigMatchesPhase, Switch
<1>2. ConfigMatchesPhase' /\ SettingsMatchPhase'
  BY DEF RotationInv, ConfigMatchesPhase, SettingsMatchPhase, Switch
<1>3. CallersMatchPhase'
  BY DEF RotationInv, TypeOK, CallersMatchPhase, Switch
<1>4. RequestsAreWelcome'
  BY DEF RotationInv, RequestsAreWelcome, Accepts, Switch
<1>. QED
  BY <1>1, <1>2, <1>3, <1>4 DEF RotationInv

\* The operator changes what is configured, and no running process.
LEMMA OperatorStep ==
    ASSUME RotationInv, Operate
    PROVE  RotationInv'
<1>1. UNCHANGED <<settings, using, inFlight, refused>>
  BY DEF Operate, AddSecondary, BeginSwitching, Promote, ClearSecondary, Finish, Step
<1>2. NobodyIsRefused' /\ RequestsAreWelcome'
  BY <1>1 DEF RotationInv, NobodyIsRefused, RequestsAreWelcome, Accepts
<1>3. CASE AddSecondary
  <2>1. TypeOK'
    BY <1>1, <1>3, RotationAssumption DEF RotationInv, TypeOK, AddSecondary, Step
  <2>2. PhaseInv'
    <3>1. /\ phase = "stable" /\ phase' = "added"
          /\ config.primary < MaxRotations
          /\ config' = [config EXCEPT !.secondary = config.primary + 1]
      BY <1>3 DEF AddSecondary, Step
    <3>2. /\ config = [primary |-> config.primary, secondary |-> NoSecret]
          /\ config'.primary = config.primary
          /\ config'.secondary = config.primary + 1
          /\ config.primary \in Secrets
      BY <3>1 DEF RotationInv, TypeOK, ConfigMatchesPhase
    <3>3. ConfigMatchesPhase'
      BY <3>1, <3>2, RotationAssumption DEF ConfigMatchesPhase
    <3>4. SettingsMatchPhase'
      <4>1. \A s \in Servers : settings[s] = config
        BY <3>1 DEF RotationInv, SettingsMatchPhase
      <4>. QED
        BY <1>1, <3>1, <3>2, <4>1 DEF SettingsMatchPhase
    <3>5. CallersMatchPhase'
      BY <1>1, <3>1, <3>2 DEF RotationInv, CallersMatchPhase
    <3>. QED
      BY <3>3, <3>4, <3>5 DEF PhaseInv
  <2>. QED
    BY <1>2, <2>1, <2>2 DEF RotationInv, PhaseInv
<1>4. CASE BeginSwitching
  <2>1. TypeOK'
    BY <1>1, <1>4 DEF RotationInv, TypeOK, BeginSwitching, Step
  <2>2. PhaseInv'
    <3>1. phase = "added" /\ phase' = "switching" /\ UNCHANGED config /\ Redeployed
      BY <1>4 DEF BeginSwitching, Step
    <3>2. ConfigMatchesPhase'
      BY <3>1 DEF RotationInv, ConfigMatchesPhase
    <3>3. SettingsMatchPhase'
      BY <1>1, <3>1 DEF SettingsMatchPhase, Redeployed
    <3>4. CallersMatchPhase'
      BY <1>1, <3>1 DEF RotationInv, CallersMatchPhase
    <3>. QED
      BY <3>2, <3>3, <3>4 DEF PhaseInv
  <2>. QED
    BY <1>2, <2>1, <2>2 DEF RotationInv, PhaseInv
<1>5. CASE Promote
  <2>1. TypeOK'
    BY <1>1, <1>5, RotationAssumption DEF RotationInv, TypeOK, ConfigMatchesPhase, Promote, Step
  <2>2. PhaseInv'
    BY <1>1, <1>5 DEF RotationInv, TypeOK, PhaseInv, ConfigMatchesPhase,
                      SettingsMatchPhase, CallersMatchPhase, Promote, Step
  <2>. QED
    BY <1>2, <2>1, <2>2 DEF RotationInv, PhaseInv
<1>6. CASE ClearSecondary
  <2>1. TypeOK'
    BY <1>1, <1>6 DEF RotationInv, TypeOK, ClearSecondary, Step
  <2>2. PhaseInv'
    BY <1>1, <1>6 DEF RotationInv, TypeOK, PhaseInv, ConfigMatchesPhase,
                      SettingsMatchPhase, CallersMatchPhase, ClearSecondary, Step
  <2>. QED
    BY <1>2, <2>1, <2>2 DEF RotationInv, PhaseInv
<1>7. CASE Finish
  <2>1. TypeOK'
    BY <1>1, <1>7 DEF RotationInv, TypeOK, Finish, Step
  <2>2. PhaseInv'
    BY <1>1, <1>7 DEF RotationInv, TypeOK, PhaseInv, ConfigMatchesPhase,
                      SettingsMatchPhase, CallersMatchPhase, Finish, Redeployed, Step
  <2>. QED
    BY <1>2, <2>1, <2>2 DEF RotationInv, PhaseInv
<1>. QED
  BY <1>3, <1>4, <1>5, <1>6, <1>7 DEF Operate

\* The inductive invariant: what servers, callers and requests in flight can
\* have of each other's secrets in each phase of a rotation.
THEOREM RotationCorrect == Spec => []RotationInv
<1>1. Init => RotationInv
  BY RotationAssumption DEF Init, RotationInv, TypeOK, NobodyIsRefused, ConfigMatchesPhase,
                            SettingsMatchPhase, CallersMatchPhase, RequestsAreWelcome
<1>2. RotationInv /\ [Next]_vars => RotationInv'
  <2> SUFFICES ASSUME RotationInv, [Next]_vars PROVE RotationInv'
    OBVIOUS
  <2>1. CASE Next
    BY <2>1, RestartStep, RequestStep, SwitchStep, OperatorStep DEF Next
  <2>2. CASE UNCHANGED vars
    BY <2>2 DEF vars, RotationInv, TypeOK, NobodyIsRefused, ConfigMatchesPhase,
                SettingsMatchPhase, CallersMatchPhase, RequestsAreWelcome, Accepts
  <2>. QED
    BY <2>1, <2>2
<1>. QED
  BY <1>1, <1>2, PTL DEF Spec

\* Every variable keeps its type.
THEOREM RotationTypes == Spec => []TypeOK
<1>1. RotationInv => TypeOK
  BY DEF RotationInv
<1>. QED
  BY <1>1, RotationCorrect, PTL

\* No caller is ever answered 401.
THEOREM RotationKeepsCallers == Spec => []NobodyIsRefused
<1>1. RotationInv => NobodyIsRefused
  BY DEF RotationInv
<1>. QED
  BY <1>1, RotationCorrect, PTL

\* What was rotated out is never let in again.
THEOREM RotationRetires == Spec => []RetiredStaysRefused
<1>1. RotationInv => RetiredStaysRefused
  <2> SUFFICES ASSUME RotationInv, NEW s \in Servers, NEW secret \in Secrets,
                      Accepts(settings[s], secret)
               PROVE  /\ secret >= Oldest
                      /\ phase = "stable" => secret = config.primary
    BY DEF RetiredStaysRefused
  <2>1. secret \in {settings[s].primary, settings[s].secondary} \ {NoSecret}
    BY DEF Accepts
  <2>. QED
    BY <2>1 DEF RotationInv, TypeOK, ConfigMatchesPhase, SettingsMatchPhase, Oldest
<1>. QED
  BY <1>1, RotationCorrect, PTL
=============================================================================
