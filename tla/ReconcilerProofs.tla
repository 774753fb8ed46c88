-------------------------- MODULE ReconcilerProofs --------------------------
(***************************************************************************)
(* Proofs about the Platform reconciler of module Reconciler.              *)
(***************************************************************************)
EXTENDS Reconciler, TLAPS

\* The number of platform components is a positive natural number.
LEMMA CompCount == Len(CompSeq) \in Nat \ {0}
  BY ReconcilerAssumption

\* Every platform component's workload is applied and its Vault role and
\* policies are written.
AllSetUp == \A c \in Comps : applied[c] /\ vcomp[c]

(***************************************************************************)
(* Why Available=True is only stored for a set-up Platform.  setupMap says *)
(* a component is set up only if its Vault entries exist (Vault outlives   *)
(* setupMap).  A pass that has not seen the Platform change holds, for the *)
(* components before ci, applied workloads and Vault entries, and for the  *)
(* component at ci the Vault entries once past setupVaultComponent.  The   *)
(* copy of the conditions the pass works on, and the stored condition,   *)
(* are True only for a set-up Platform; applied is cleared only when the *)
(* Namespace goes, which marks the Platform changed and so keeps the pass  *)
(* from writing its copy.                                                  *)
(***************************************************************************)
SetupMapSound == \A c \in Comps : setupComp[c] => vcomp[c]
CondSound == cond = "True" => AllSetUp
WorkSound == (work = "True" /\ ~changed) => AllSetUp
DoneSetUp == (~changed /\ rpc \in {"compVault", "compSetup"}) =>
                \A i \in 1..ci - 1 : applied[CompSeq[i]] /\ vcomp[CompSeq[i]]
CurVault == (~changed /\ rpc = "compSetup") => vcomp[CompSeq[ci]]

SetUpInv == SetupMapSound /\ CondSound /\ WorkSound /\ DoneSetUp /\ CurVault

RInv == TypeOK /\ SetUpInv

\* The places of the pass, and the values of the Available condition, as
\* facts that keep the two sets opaque in the step proofs.
LEMMA PhaseVals ==
    /\ "idle" \in Phase /\ "getNs" \in Phase /\ "getPlat" \in Phase
    /\ "reconcile" \in Phase /\ "vault" \in Phase /\ "applyPlat" \in Phase
    /\ "compVault" \in Phase /\ "compSetup" \in Phase /\ "apps" \in Phase
    /\ "status" \in Phase
  BY DEF Phase

\* (The values of the Available condition.)
LEMMA CondVals ==
    /\ "none" \in CondVal /\ "Unknown" \in CondVal /\ "True" \in CondVal
    /\ Comps \subseteq CondVal
  BY DEF CondVal

\* Component names are not condition values, and each index of CompSeq
\* names a component.
LEMMA CompNames ==
    /\ \A i \in 1..Len(CompSeq) : CompSeq[i] \in Comps
    /\ "True" \notin Comps
  BY ReconcilerAssumption DEF Comps

\* The component being set up is one of the platform components.
LEMMA CurInComps == ci \in 1..Len(CompSeq) => Cur \in Comps
  BY DEF Cur, Comps

\* The type invariant, split into the variables the SMT backend handles well
\* and the Boolean flags, which go to Zenon.
TypeData ==
    /\ rpc \in Phase /\ ci \in 1..Len(CompSeq) /\ vi \in 1..NumVaultCalls
    /\ work \in CondVal /\ setupComp \in [Comps -> BOOLEAN]
    /\ ds \in 0..FirstPKICall - 1 /\ pki \in 0..PKIDone
    /\ vcomp \in [Comps -> BOOLEAN]
    /\ nsPhase \in {"absent", "active", "terminating"}
    /\ applied \in [Comps -> BOOLEAN] /\ ready \in [Comps -> BOOLEAN]
    /\ cond \in CondVal

TypeFlags ==
    /\ rerr \in BOOLEAN /\ queued \in BOOLEAN /\ setupPlat \in BOOLEAN
    /\ platform \in BOOLEAN /\ debugBad \in BOOLEAN /\ caCM \in BOOLEAN
    /\ changed \in BOOLEAN /\ flaky \in BOOLEAN

\* TypeOK is the conjunction of the two halves.
LEMMA TypeSplit == TypeOK <=> TypeData /\ TypeFlags
  BY DEF TypeOK, TypeData, TypeFlags

\* Init (no Platform, nothing in Vault, the pass idle) satisfies RInv.
LEMMA InitRInv == Init => RInv
  <1> SUFFICES ASSUME Init PROVE RInv
    OBVIOUS
  <1>1. TypeOK
    <2>1. TypeData
      BY PhaseVals, CondVals, CompCount DEF Init, TypeData, NumVaultCalls,
         FirstPKICall, PKIDone
    <2>2. TypeFlags
      BY Zenon DEF Init, TypeFlags
    <2>3. QED
      BY <2>1, <2>2, TypeSplit
  <1>2. SetUpInv
    BY DEF Init, SetUpInv, SetupMapSound, CondSound, WorkSound, DoneSetUp, CurVault
  <1>3. QED
    BY <1>1, <1>2 DEF RInv

\* setupComponent's step (apply, then the next component or Return) keeps
\* the data variables in their types: ci stays within the component list.
LEMMA CompSetupData == ASSUME TypeData, CompSetup PROVE TypeData'
  <1>1. Cur \in Comps /\ Cur \in CondVal
    BY CurInComps, CondVals DEF TypeData
  <1>2. UNCHANGED <<vi, setupComp, ds, pki, vcomp, nsPhase, ready, cond>>
    BY DEF CompSetup, vaultVars, clusterVars
  <1>3. applied' \in [Comps -> BOOLEAN]
    BY <1>1 DEF CompSetup, TypeData
  <1>4. ci' \in 1..Len(CompSeq)
    <2>1. ci' = ci \/ (ci < Len(CompSeq) /\ ci' = ci + 1)
      BY Zenon DEF CompSetup
    <2>2. QED
      BY <2>1, CompCount DEF TypeData
  <1>5. rpc' \in Phase /\ work' \in CondVal
    <2>1. CASE ready[Cur] /\ ci < Len(CompSeq)
      <3>1. (rpc' = "compVault" /\ work' = work) \/ (applied' = applied /\ Return(Cur, TRUE))
        BY <2>1 DEF CompSetup
      <3>2. QED
        BY <3>1, PhaseVals, CondVals DEF TypeData, Return
    <2>2. CASE ~(ready[Cur] /\ ci < Len(CompSeq))
      <3>1. Return(IF ready[Cur] THEN "True" ELSE Cur, FALSE) \/ Return(Cur, TRUE)
        BY <2>2 DEF CompSetup
      <3>2. QED
        BY <3>1, <1>1, PhaseVals, CondVals DEF Return
    <2>3. QED
      BY <2>1, <2>2
  <1>6. QED
    BY <1>2, <1>3, <1>4, <1>5 DEF TypeData

\* Every reconcile step, Platform edit, operator restart and workload
\* readiness change keeps TypeOK.
LEMMA TypeNext == TypeOK /\ [Next]_vars => TypeOK'
  <1> SUFFICES ASSUME TypeOK, [Next]_vars PROVE TypeOK'
    OBVIOUS
  <1>1. TypeData /\ TypeFlags
    BY TypeSplit
  <1>2. TypeData'
    <2>1. CASE Dequeue
      BY <2>1, <1>1, PhaseVals, CondVals, CompCount DEF Dequeue, TypeData, NumVaultCalls, FirstPKICall, PKIDone, passVars, vaultVars, clusterVars
    <2>2. CASE GetNs
      BY <2>2, <1>1, PhaseVals, CondVals, CompCount DEF GetNs, Finish, TypeData, NumVaultCalls, FirstPKICall, PKIDone, passVars, vaultVars, clusterVars
    <2>3. CASE GetPlat
      BY <2>3, <1>1, PhaseVals, CondVals, CompCount DEF GetPlat, Finish, TypeData, NumVaultCalls, FirstPKICall, PKIDone, passVars, vaultVars, clusterVars
    <2>4. CASE ReconcileStart
      BY <2>4, <1>1, PhaseVals, CondVals, CompCount DEF ReconcileStart, Return, TypeData, NumVaultCalls, FirstPKICall, PKIDone, passVars, vaultVars, clusterVars
    <2>5. CASE CreateDataStore
      BY <2>5, <1>1, PhaseVals, CondVals, CompCount DEF CreateDataStore, TypeData, NumVaultCalls, FirstPKICall, PKIDone, passVars, vaultVars, clusterVars
    <2>6. CASE MountExists
      BY <2>6, <1>1, PhaseVals, CondVals, CompCount DEF MountExists, TypeData, NumVaultCalls, FirstPKICall, PKIDone, passVars, vaultVars, clusterVars
    <2>7. CASE PKIWrite
      BY <2>7, <1>1, PhaseVals, CondVals, CompCount DEF PKIWrite, TypeData, NumVaultCalls, FirstPKICall, PKIDone, passVars, vaultVars, clusterVars
    <2>8. CASE VaultFail
      BY <2>8, <1>1, PhaseVals, CondVals, CompCount DEF VaultFail, Return, TypeData, NumVaultCalls, FirstPKICall, PKIDone, passVars, vaultVars, clusterVars
    <2>9. CASE ApplyPlat
      BY <2>9, <1>1, PhaseVals, CondVals, CompCount DEF ApplyPlat, Return, TypeData, NumVaultCalls, FirstPKICall, PKIDone, passVars, vaultVars, clusterVars
    <2>10. CASE CompVault
      BY <2>10, <1>1, CurInComps, PhaseVals, CondVals, CompCount DEF CompVault, Return, TypeData, NumVaultCalls, FirstPKICall, PKIDone, passVars, vaultVars, clusterVars
    <2>11. CASE CompSetup
      BY <2>11, <1>1, CompSetupData
    <2>12. CASE Apps
      BY <2>12, <1>1, PhaseVals, CondVals, CompCount DEF Apps, TypeData, NumVaultCalls, FirstPKICall, PKIDone, passVars, vaultVars, clusterVars
    <2>13. CASE Status
      BY <2>13, <1>1, PhaseVals, CondVals, CompCount DEF Status, Finish, ComponentsStatusErr, TypeData, NumVaultCalls, FirstPKICall, PKIDone, passVars, vaultVars, clusterVars
    <2>14. CASE CreatePlatform
      BY <2>14, <1>1, PhaseVals, CondVals, CompCount DEF CreatePlatform, TypeData, NumVaultCalls, FirstPKICall, PKIDone, passVars, vaultVars, clusterVars
    <2>15. CASE EditPlatform
      BY <2>15, <1>1, PhaseVals, CondVals, CompCount DEF EditPlatform, TypeData, NumVaultCalls, FirstPKICall, PKIDone, passVars, vaultVars, clusterVars
    <2>16. CASE DeleteNamespace
      BY <2>16, <1>1, PhaseVals, CondVals, CompCount DEF DeleteNamespace, TypeData, NumVaultCalls, FirstPKICall, PKIDone, passVars, vaultVars, clusterVars
    <2>17. CASE NamespaceGone
      BY <2>17, <1>1, PhaseVals, CondVals, CompCount DEF NamespaceGone, TypeData, NumVaultCalls, FirstPKICall, PKIDone, passVars, vaultVars, clusterVars
    <2>18. CASE CreateCA
      BY <2>18, <1>1, PhaseVals, CondVals, CompCount DEF CreateCA, TypeData, NumVaultCalls, FirstPKICall, PKIDone, passVars, vaultVars, clusterVars
    <2>19. ASSUME NEW c \in Comps, BecomeReady(c) PROVE TypeData'
      BY <2>19, <1>1, PhaseVals, CondVals, CompCount DEF BecomeReady, TypeData, NumVaultCalls, FirstPKICall, PKIDone, passVars, vaultVars, clusterVars
    <2>20. ASSUME NEW c \in Comps, BecomeUnready(c) PROVE TypeData'
      BY <2>20, <1>1, PhaseVals, CondVals, CompCount DEF BecomeUnready, TypeData, NumVaultCalls, FirstPKICall, PKIDone, passVars, vaultVars, clusterVars
    <2>21. CASE Restart
      BY <2>21, <1>1, PhaseVals, CondVals, CompCount DEF Restart, TypeData, NumVaultCalls, FirstPKICall, PKIDone, passVars, vaultVars, clusterVars
    <2>22. CASE Calm
      BY <2>22, <1>1, PhaseVals, CondVals, CompCount DEF Calm, TypeData, NumVaultCalls, FirstPKICall, PKIDone, passVars, vaultVars, clusterVars
    <2>23. CASE UNCHANGED vars
      BY <2>23, <1>1 DEF vars, TypeData, NumVaultCalls, FirstPKICall, PKIDone, passVars, vaultVars, clusterVars
    <2>24. QED
      BY <2>1, <2>2, <2>3, <2>4, <2>5, <2>6, <2>7, <2>8, <2>9, <2>10, <2>11, <2>12, <2>13, <2>14, <2>15, <2>16, <2>17, <2>18, <2>19, <2>20, <2>21, <2>22, <2>23 DEF Next, Step, Environment
  <1>3. TypeFlags'
    <2>1. CASE Dequeue
      BY <2>1, <1>1, Zenon DEF Dequeue, TypeFlags, passVars, vaultVars, clusterVars
    <2>2. CASE GetNs
      BY <2>2, <1>1, Zenon DEF GetNs, Finish, TypeFlags, passVars, vaultVars, clusterVars
    <2>3. CASE GetPlat
      BY <2>3, <1>1, Zenon DEF GetPlat, Finish, TypeFlags, passVars, vaultVars, clusterVars
    <2>4. CASE ReconcileStart
      BY <2>4, <1>1, Zenon DEF ReconcileStart, Return, TypeFlags, passVars, vaultVars, clusterVars
    <2>5. CASE CreateDataStore
      BY <2>5, <1>1, Zenon DEF CreateDataStore, TypeFlags, passVars, vaultVars, clusterVars
    <2>6. CASE MountExists
      BY <2>6, <1>1, Zenon DEF MountExists, TypeFlags, passVars, vaultVars, clusterVars
    <2>7. CASE PKIWrite
      BY <2>7, <1>1, Zenon DEF PKIWrite, TypeFlags, passVars, vaultVars, clusterVars
    <2>8. CASE VaultFail
      BY <2>8, <1>1, Zenon DEF VaultFail, Return, TypeFlags, passVars, vaultVars, clusterVars
    <2>9. CASE ApplyPlat
      BY <2>9, <1>1, Zenon DEF ApplyPlat, Return, TypeFlags, passVars, vaultVars, clusterVars
    <2>10. CASE CompVault
      BY <2>10, <1>1, CurInComps, Zenon DEF CompVault, Return, TypeFlags, passVars, vaultVars, clusterVars
    <2>11. CASE CompSetup
      BY <2>11, <1>1, CurInComps, Zenon DEF CompSetup, Return, TypeFlags, passVars, vaultVars, clusterVars
    <2>12. CASE Apps
      BY <2>12, <1>1, Zenon DEF Apps, TypeFlags, passVars, vaultVars, clusterVars
    <2>13. CASE Status
      BY <2>13, <1>1, Zenon DEF Status, Finish, ComponentsStatusErr, TypeFlags, passVars, vaultVars, clusterVars
    <2>14. CASE CreatePlatform
      BY <2>14, <1>1, Zenon DEF CreatePlatform, TypeFlags, passVars, vaultVars, clusterVars
    <2>15. CASE EditPlatform
      BY <2>15, <1>1, Zenon DEF EditPlatform, TypeFlags, passVars, vaultVars, clusterVars
    <2>16. CASE DeleteNamespace
      BY <2>16, <1>1, Zenon DEF DeleteNamespace, TypeFlags, passVars, vaultVars, clusterVars
    <2>17. CASE NamespaceGone
      BY <2>17, <1>1, Zenon DEF NamespaceGone, TypeFlags, passVars, vaultVars, clusterVars
    <2>18. CASE CreateCA
      BY <2>18, <1>1, Zenon DEF CreateCA, TypeFlags, passVars, vaultVars, clusterVars
    <2>19. ASSUME NEW c \in Comps, BecomeReady(c) PROVE TypeFlags'
      BY <2>19, <1>1, Zenon DEF BecomeReady, TypeFlags, passVars, vaultVars, clusterVars
    <2>20. ASSUME NEW c \in Comps, BecomeUnready(c) PROVE TypeFlags'
      BY <2>20, <1>1, Zenon DEF BecomeUnready, TypeFlags, passVars, vaultVars, clusterVars
    <2>21. CASE Restart
      BY <2>21, <1>1, Zenon DEF Restart, TypeFlags, passVars, vaultVars, clusterVars
    <2>22. CASE Calm
      BY <2>22, <1>1, Zenon DEF Calm, TypeFlags, passVars, vaultVars, clusterVars
    <2>23. CASE UNCHANGED vars
      BY <2>23, <1>1 DEF vars, TypeFlags, passVars, vaultVars, clusterVars
    <2>24. QED
      BY <2>1, <2>2, <2>3, <2>4, <2>5, <2>6, <2>7, <2>8, <2>9, <2>10, <2>11, <2>12, <2>13, <2>14, <2>15, <2>16, <2>17, <2>18, <2>19, <2>20, <2>21, <2>22, <2>23 DEF Next, Step, Environment
  <1>4. QED
    BY <1>2, <1>3 DEF TypeOK, TypeData, TypeFlags

\* setupVaultComponent keeps the set-up invariant: it only adds Vault
\* entries, and moves to setupComponent with the current component's
\* entries in place (written now, or already there when setupMap says so).
LEMMA CompVaultSetUp == ASSUME TypeData, SetUpInv, CompVault PROVE SetUpInv'
  <1>1. Cur \in Comps /\ Cur = CompSeq[ci]
    BY CurInComps DEF Cur, TypeData
  <1>2. UNCHANGED <<ci, applied, cond, changed>>
    BY DEF CompVault, clusterVars
  <1>3. \A c \in Comps : vcomp[c] => vcomp'[c]
    BY <1>1 DEF CompVault, TypeData
  <1>4. SetupMapSound'
    BY <1>1 DEF CompVault, SetupMapSound, SetUpInv, TypeData
  <1>5. CondSound'
    BY <1>2, <1>3 DEF CondSound, AllSetUp, SetUpInv
  <1>6. WorkSound'
    <2>1. work' = work \/ work' = "Unknown"
      BY DEF CompVault, Return
    <2>2. QED
      BY <2>1, <1>2, <1>3 DEF WorkSound, AllSetUp, SetUpInv
  <1>7. DoneSetUp'
    BY <1>2, <1>3, CompNames DEF DoneSetUp, SetUpInv, CompVault, TypeData
  <1>8. CurVault'
    BY <1>1, <1>2 DEF CurVault, CompVault, SetupMapSound, SetUpInv, TypeData, Return
  <1>9. QED
    BY <1>4, <1>5, <1>6, <1>7, <1>8 DEF SetUpInv

\* setupComponent keeps the set-up invariant: it only applies workloads,
\* and its copy of Available becomes True only after the last component,
\* when every component before it was set up in this pass.
LEMMA CompSetupSetUp == ASSUME TypeData, SetUpInv, CompSetup PROVE SetUpInv'
  <1>1. Cur \in Comps /\ Cur = CompSeq[ci]
    BY CurInComps DEF Cur, TypeData
  <1>2. UNCHANGED <<setupComp, vcomp, cond, changed>>
    BY DEF CompSetup, vaultVars
  <1>3. \A c \in Comps : applied[c] => applied'[c]
    BY <1>1 DEF CompSetup, TypeData
  <1>4. SetupMapSound'
    BY <1>2 DEF SetupMapSound, SetUpInv
  <1>5. CondSound'
    BY <1>2, <1>3 DEF CondSound, AllSetUp, SetUpInv
  <1>6. CASE ready[Cur] /\ ci < Len(CompSeq)
    <2>1. \/ /\ applied' = [applied EXCEPT ![Cur] = TRUE]
             /\ ci' = ci + 1 /\ rpc' = "compVault" /\ work' = work
          \/ Return(Cur, TRUE) /\ UNCHANGED <<ci, applied>>
      BY <1>6, Zenon DEF CompSetup
    <2>2. CASE applied' = [applied EXCEPT ![Cur] = TRUE]
               /\ ci' = ci + 1 /\ rpc' = "compVault" /\ work' = work
      <3>1. WorkSound'
        BY <2>2, <1>2, <1>3 DEF WorkSound, AllSetUp, SetUpInv
      <3>2. DoneSetUp'
        <4> SUFFICES ASSUME ~changed', NEW i \in 1..ci' - 1
                     PROVE applied'[CompSeq[i]] /\ vcomp'[CompSeq[i]]
          BY DEF DoneSetUp
        <4>1. CompSeq[i] \in Comps
          BY <2>2, CompNames DEF TypeData
        <4>2. CASE i < ci
          BY <4>1, <4>2, <1>2, <1>3, <2>2 DEF DoneSetUp, SetUpInv, CompSetup, TypeData
        <4>3. CASE i = ci
          BY <4>3, <1>1, <1>2, <2>2 DEF CurVault, SetUpInv, CompSetup, TypeData
        <4>4. QED
          BY <2>2, <4>2, <4>3 DEF TypeData
      <3>3. CurVault'
        BY <2>2 DEF CurVault
      <3>4. QED
        BY <1>4, <1>5, <3>1, <3>2, <3>3 DEF SetUpInv
    <2>3. CASE Return(Cur, TRUE) /\ UNCHANGED <<ci, applied>>
      BY <2>3, <1>4, <1>5, <1>2 DEF Return, SetUpInv, WorkSound, DoneSetUp, CurVault
    <2>4. QED
      BY <2>1, <2>2, <2>3
  <1>7. CASE ~(ready[Cur] /\ ci < Len(CompSeq))
    <2>1. rpc' \notin {"compVault", "compSetup"}
      BY <1>7 DEF CompSetup, Return
    <2>2. work' = "True" => ready[Cur] /\ ci = Len(CompSeq)
                            /\ applied' = [applied EXCEPT ![Cur] = TRUE]
      BY <1>7, <1>1, CompNames DEF CompSetup, Return, TypeData
    <2>3. WorkSound'
      <3> SUFFICES ASSUME work' = "True", ~changed', NEW c \in Comps
                   PROVE applied'[c] /\ vcomp'[c]
        BY DEF WorkSound, AllSetUp
      <3>1. PICK i \in 1..Len(CompSeq) : c = CompSeq[i]
        BY DEF Comps
      <3>2. CASE i < ci
        BY <3>1, <3>2, <2>2, <1>2, <1>3 DEF DoneSetUp, SetUpInv, CompSetup, TypeData
      <3>3. CASE i = ci
        BY <3>1, <3>3, <2>2, <1>1, <1>2 DEF CurVault, SetUpInv, CompSetup, TypeData
      <3>5. ci = Len(CompSeq)
        BY <2>2
      <3>0. i \in Nat /\ ci \in Nat /\ i <= ci
        BY <3>1, <3>5
      <3>4. QED
        BY <3>0, <3>2, <3>3
    <2>4. QED
      BY <2>1, <2>3, <1>4, <1>5 DEF SetUpInv, DoneSetUp, CurVault
  <1>8. QED
    BY <1>6, <1>7

\* Every step keeps the set-up invariant.
LEMMA SetUpNext == TypeOK /\ SetUpInv /\ [Next]_vars => SetUpInv'
  <1> SUFFICES ASSUME TypeOK /\ SetUpInv, [Next]_vars PROVE SetUpInv'
    OBVIOUS
  <1> USE DEF TypeOK, SetUpInv, SetupMapSound, CondSound, WorkSound, DoneSetUp, CurVault, AllSetUp, passVars, vaultVars, clusterVars
  <1>1. CASE Dequeue
    BY <1>1 DEF Dequeue
  <1>2. CASE GetNs
    BY <1>2 DEF GetNs, Finish
  <1>3. CASE GetPlat
    BY <1>3 DEF GetPlat, Finish
  <1>4. CASE ReconcileStart
    BY <1>4 DEF ReconcileStart, Return
  <1>5. CASE CreateDataStore
    BY <1>5 DEF CreateDataStore, FirstPKICall
  <1>6. CASE MountExists
    BY <1>6 DEF MountExists
  <1>7. CASE PKIWrite
    BY <1>7 DEF PKIWrite, FirstPKICall, NumVaultCalls, PKIDone
  <1>8. CASE VaultFail
    BY <1>8 DEF VaultFail, Return
  <1>9. CASE ApplyPlat
    BY <1>9 DEF ApplyPlat, Return
  <1>10. CASE CompVault
    BY <1>10, CompVaultSetUp, TypeSplit
  <1>11. CASE CompSetup
    BY <1>11, CompSetupSetUp, TypeSplit
  <1>12. CASE Apps
    BY <1>12 DEF Apps
  <1>13. CASE Status
    BY <1>13 DEF Status, Finish, ComponentsStatusErr
  <1>14. CASE CreatePlatform
    BY <1>14 DEF CreatePlatform
  <1>15. CASE EditPlatform
    BY <1>15 DEF EditPlatform
  <1>16. CASE DeleteNamespace
    BY <1>16 DEF DeleteNamespace
  <1>17. CASE NamespaceGone
    BY <1>17 DEF NamespaceGone
  <1>18. CASE CreateCA
    BY <1>18 DEF CreateCA
  <1>19. ASSUME NEW c \in Comps, BecomeReady(c) PROVE SetUpInv'
    BY <1>19 DEF BecomeReady
  <1>20. ASSUME NEW c \in Comps, BecomeUnready(c) PROVE SetUpInv'
    BY <1>20 DEF BecomeUnready
  <1>21. CASE Restart
    BY <1>21 DEF Restart
  <1>22. CASE Calm
    BY <1>22 DEF Calm
  <1>23. CASE UNCHANGED vars
    BY <1>23 DEF vars
  <1>24. QED
    BY <1>1, <1>2, <1>3, <1>4, <1>5, <1>6, <1>7, <1>8, <1>9, <1>10, <1>11, <1>12, <1>13, <1>14, <1>15, <1>16, <1>17, <1>18, <1>19, <1>20, <1>21, <1>22, <1>23 DEF Next, Step, Environment

\* RInv is inductive.
LEMMA NextRInv == RInv /\ [Next]_vars => RInv'
  BY TypeNext, SetUpNext DEF RInv

\* RInv holds in every state of the reconciler.
LEMMA RInvSpec == Spec => []RInv
  BY InitRInv, NextRInv, PTL DEF Spec

\* Every state of the reconciler, across failed and retried passes,
\* operator restarts and concurrent Platform edits and Namespace deletion,
\* gives each variable a value of its type.
THEOREM ReconcilerTypeCorrect == Spec => []TypeOK
  <1>1. RInv => TypeOK
    BY DEF RInv
  <1>2. QED
    BY <1>1, RInvSpec, PTL

\* Reconcile stores Available=True only for a Platform every component of
\* which has its workload applied and its Vault role and policies written,
\* for any number of components: the skip on setupMap, the status write of
\* a stale copy and the chill(err) of a not-ready component never let it
\* store True early.
THEOREM AvailableSetUp == Spec => []AvailableMeansSetUp
  <1>1. RInv => AvailableMeansSetUp
    BY DEF RInv, SetUpInv, CondSound, AllSetUp, AvailableMeansSetUp
  <1>2. QED
    BY <1>1, RInvSpec, PTL
=============================================================================
