--------------------------- MODULE Options_proofs ---------------------------
(* What New accepts, and how a Provider backs off, for any keys, arguments,  *)
(* width of durations and number of options.  The argument: a flag stays up  *)
(* once an option for the built-in client was applied, so validation sees    *)
(* it; and what was validated is not changed afterwards.  The sleeps are in  *)
(* bounds and double by the arithmetic of one step (Backoff_proofs).         *)
EXTENDS Options, Backoff_proofs

\* An option for the built-in client leaves a flag up for good.
Flagged == given \cap ConnectionOptions # {} => HasNonDefaultClientConfig

\* Once validated the settings stay valid, and the client is built from them.
Accepted ==
  /\ pc \in {"building", "ready"} => ~Invalid
  /\ pc = "building" => settings.client # "some"
  /\ pc = "ready" /\ settings.client # "some" =>
       /\ config.endpoints = Some({"endpoints", "srv"})
       /\ config.login = Login /\ config.tls = TLSConfig

\* There are no sleeps before there is a Provider.
Rested == pc # "ready" => attempt = 0 /\ ~panicked

IInv == TypeOK /\ Flagged /\ Accepted /\ Rested /\ DelayInBounds

-----------------------------------------------------------------------------
(* The invariant.                                                            *)

\* settings has a field per option.
LEMMA Fields ==
  /\ DOMAIN Defaults = ConnectionOptions \cup DOMAIN OtherArgs
  /\ {"client", "key", "prefix", "blob", "unflatten", "eventFilter"} = DOMAIN OtherArgs
  /\ "tlsFiles" \in ConnectionOptions
  /\ ConnectionOptions \cap DOMAIN OtherArgs = {}
BY DEF Defaults, ConnectionOptions, ConnectionArgs, OtherArgs

\* New starts with a settings struct that satisfies it.
LEMMA Initially == Init => IInv
<1> SUFFICES ASSUME Init
             PROVE  IInv
  OBVIOUS
<1>1. TypeOK
  <2>1. /\ settings.key = Empty /\ settings.prefix = Empty /\ settings.tlsFiles = {}
        /\ settings.blob = FALSE /\ settings.unflatten = TRUE
        /\ settings.eventFilter = Unset /\ DOMAIN settings = DOMAIN Defaults
    BY Fields DEF Init, Defaults
  <2>2. /\ Half \in Nat \ {0} /\ MaxAttempts \in Nat /\ DefaultMin \in 1..(Half - 1)
        /\ DefaultMax \in 1..(Half - 1)
    BY BackoffAssumption, OptionsAssumption
  <2>3. /\ {reconnectMin, reconnectMax, delay} \subseteq (-Half)..(Half - 1)
        /\ attempt \in 0..MaxAttempts /\ panicked \in BOOLEAN
    <3>1. /\ DefaultMin \in (-Half)..(Half - 1) /\ DefaultMax \in (-Half)..(Half - 1)
          /\ 0 \in (-Half)..(Half - 1) /\ 0 \in 0..MaxAttempts
      BY <2>2
    <3>2. /\ reconnectMin = DefaultMin /\ reconnectMax = DefaultMax /\ delay = 0
          /\ attempt = 0 /\ panicked = FALSE
      BY DEF Init, BackoffInit
    <3> QED BY <3>1, <3>2
  <2> QED BY <2>1, <2>3 DEF Init, TypeOK
<1> QED BY <1>1 DEF Init, BackoffInit, IInv, Flagged, Accepted, Rested, DelayInBounds

\* Every step keeps it.
LEMMA Inductive == IInv /\ [Next]_vars => IInv'
<1> SUFFICES ASSUME IInv, [Next]_vars
             PROVE  IInv'
  OBVIOUS
<1> USE DEF IInv, optionVars, boundVars, sleepVars
<1>1. CASE ApplyConnection
  <2>1. PICK o \in ConnectionOptions, arg \in UNION {ConnectionArgs[p] : p \in ConnectionOptions} :
          /\ arg \in ConnectionArgs[o]
          /\ settings' = [settings EXCEPT ![o] = arg]
          /\ wasSet' = wasSet \cup Flag(o)
          /\ given' = given \cup {o}
    BY <1>1 DEF ApplyConnection
  <2>2. Flag(o) # {}
    BY DEF Flag
  <2>3. TypeOK'
    <3>1. settings'.tlsFiles \subseteq TLSFiles
      <4>1. CASE o = "tlsFiles"
        BY <2>1, <4>1, Fields DEF TypeOK, ConnectionArgs
      <4>2. CASE o # "tlsFiles"
        BY <2>1, <4>2, Fields DEF TypeOK
      <4> QED BY <4>1, <4>2
    <3>2. /\ DOMAIN settings' = DOMAIN settings
          /\ settings'.key = settings.key /\ settings'.prefix = settings.prefix
          /\ settings'.blob = settings.blob /\ settings'.unflatten = settings.unflatten
          /\ settings'.eventFilter = settings.eventFilter
      BY <2>1, Fields DEF TypeOK
    <3> QED BY <1>1, <3>1, <3>2 DEF ApplyConnection, TypeOK, More
  <2>4. Flagged' /\ Accepted' /\ Rested' /\ DelayInBounds'
    BY <1>1, <2>1, <2>2 DEF ApplyConnection, More, Flagged, Accepted, Rested, DelayInBounds,
                             HasNonDefaultClientConfig
  <2> QED BY <2>3, <2>4
<1>2. CASE ApplyOther
  <2>1. PICK o \in DOMAIN OtherArgs : \E arg \in OtherArgs[o] :
          /\ settings' = [settings EXCEPT ![o] = arg]
          /\ given' = given \cup {o}
    BY <1>2 DEF ApplyOther
  <2>2. o \notin ConnectionOptions
    BY Fields
  <2>3. TypeOK'
    <3>1. PICK arg \in OtherArgs[o] : settings' = [settings EXCEPT ![o] = arg]
      BY <2>1
    <3>2. DOMAIN settings' = DOMAIN settings /\ settings'.tlsFiles = settings.tlsFiles
      BY <2>2, <3>1, Fields DEF TypeOK
    <3>3. /\ settings'.key \in Names \cup {Empty} /\ settings'.prefix \in Names \cup {Empty}
          /\ settings'.blob \in BOOLEAN /\ settings'.unflatten \in BOOLEAN
          /\ settings'.eventFilter \in {Unset} \cup SUBSET Kinds
      <4>1. \A p \in DOMAIN OtherArgs : settings'[p] = IF p = o THEN arg ELSE settings[p]
        BY <3>1, Fields DEF TypeOK
      <4>2. /\ OtherArgs["key"] = Names /\ OtherArgs["prefix"] = Names
            /\ OtherArgs["blob"] = {TRUE} /\ OtherArgs["unflatten"] = BOOLEAN
            /\ OtherArgs["eventFilter"] = SUBSET Kinds
        BY DEF OtherArgs
      <4>3. settings'["key"] \in Names \cup {Empty}
        BY <3>1, <4>1, <4>2, Fields DEF TypeOK
      <4>4. settings'["prefix"] \in Names \cup {Empty}
        BY <3>1, <4>1, <4>2, Fields DEF TypeOK
      <4>5. settings'["blob"] \in BOOLEAN /\ settings'["unflatten"] \in BOOLEAN
        BY <3>1, <4>1, <4>2, Fields DEF TypeOK
      <4>6. settings'["eventFilter"] \in {Unset} \cup SUBSET Kinds
        BY <3>1, <4>1, <4>2, Fields DEF TypeOK
      <4> QED BY <4>3, <4>4, <4>5, <4>6
    <3> QED BY <1>2, <3>2, <3>3 DEF ApplyOther, TypeOK, More
  <2>4. Flagged' /\ Accepted' /\ Rested' /\ DelayInBounds'
    BY <1>2, <2>1, <2>2 DEF ApplyOther, More, Flagged, Accepted, Rested, DelayInBounds,
                             HasNonDefaultClientConfig
  <2> QED BY <2>3, <2>4
<1>3. CASE ApplyBackoff
  <2>1. "reconnectBackoff" \notin ConnectionOptions
    BY DEF ConnectionOptions, ConnectionArgs
  <2>2. pc = "applying" /\ pc' = pc
    BY <1>3 DEF ApplyBackoff, More
  <2> QED BY <1>3, <2>1, <2>2, OptionsAssumption
          DEF ApplyBackoff, TypeOK, Flagged, Accepted, Rested, DelayInBounds, HasNonDefaultClientConfig
<1>4. CASE Validate
  BY <1>4 DEF Validate, TypeOK, Flagged, Accepted, Rested, DelayInBounds, Invalid, BadMode,
              HasNonDefaultClientConfig
<1>5. CASE BuildClient
  BY <1>5 DEF BuildClient, TypeOK, Flagged, Accepted, Rested, DelayInBounds, Invalid, BadMode,
              HasNonDefaultClientConfig, Login, TLSConfig, TLSSource, Some
<1>6. CASE BuildFails
  BY <1>6 DEF BuildFails, TypeOK, Flagged, Accepted, Rested, DelayInBounds,
              HasNonDefaultClientConfig
<1>7. CASE Backoffs
  <2>1. CASE Sleep
    <3>1. DelayInBounds' /\ delay' \in (-Half)..(Half - 1) /\ attempt' \in 0..MaxAttempts
          /\ panicked' \in BOOLEAN
      BY <2>1, SleepInBounds DEF TypeOK
    <3> QED BY <1>7, <2>1, <3>1
            DEF Backoffs, Sleep, TypeOK, Flagged, Accepted, Rested, HasNonDefaultClientConfig,
                Invalid, BadMode, Login, TLSConfig, TLSSource, Some
  <2>2. CASE Progress
    BY <1>7, <2>2, BackoffAssumption
       DEF Backoffs, Progress, TypeOK, Flagged, Accepted, Rested, HasNonDefaultClientConfig,
           Invalid, BadMode, Login, TLSConfig, TLSSource, Some, DelayInBounds
  <2> QED BY <1>7, <2>1, <2>2 DEF Backoffs
<1>8. CASE UNCHANGED vars
  BY <1>8 DEF vars, TypeOK, Flagged, Accepted, Rested, HasNonDefaultClientConfig,
              Invalid, BadMode, Login, TLSConfig, TLSSource, Some, DelayInBounds
<1> QED BY <1>1, <1>2, <1>3, <1>4, <1>5, <1>6, <1>7, <1>8 DEF Next

\* The inductive invariant holds of New and of what comes after it.
THEOREM Invariance == Spec => []IInv
BY Initially, Inductive, PTL DEF Spec

-----------------------------------------------------------------------------
(* The properties.                                                           *)

\* Every variable keeps its type.
THEOREM Typing == Spec => []TypeOK
<1>1. IInv => TypeOK
  BY DEF IInv
<1> QED BY <1>1, Invariance, PTL

\* Sleeps are between the minimum and the maximum, however the shift overflows.
THEOREM SleepsInBounds == Spec => []DelayInBounds
<1>1. IInv => DelayInBounds
  BY DEF IInv
<1> QED BY <1>1, Invariance, PTL

\* The sleeps escalate as they should: the ceiling doubles with each attempt up to
\* the maximum, and no overflow of the shift goes unnoticed.
THEOREM SleepsDouble == Spec => []CeilingDoubles
<1>1. TypeOK => CeilingDoubles
  <2>1. 0..MaxAttempts \subseteq Nat
    BY BackoffAssumption
  <2> QED BY <2>1, CeilingIsExact DEF TypeOK
<1> QED BY <1>1, Typing, PTL

\* An accepted option is not dropped in favour of another.
THEOREM NothingDropped == Spec => []NoSilentDrop
<1>1. IInv => NoSilentDrop
  BY DEF IInv, TypeOK, Flagged, Accepted, NoSilentDrop, Invalid, Login, TLSConfig,
         TLSSource, Some, TLSFiles
<1> QED BY <1>1, Invariance, PTL

\* Read, resync and watch are about the same keys.
THEOREM SameKeys == Spec => []WatchCoversRead
<1>1. IInv => WatchCoversRead
  BY DEF IInv, Accepted, WatchCoversRead, Invalid, BadMode, ReadKeys, ResyncKeys,
         WatchKeys, WatchKey
<1> QED BY <1>1, Invariance, PTL

\* The two filters together let pass what was asked for.
THEOREM FiltersAgree == Spec => []DeliversWhatWasAsked
<1>1. IInv => DeliversWhatWasAsked
  <2> SUFFICES ASSUME settings.eventFilter \in {Unset} \cup SUBSET Kinds
               PROVE  DeliversWhatWasAsked
    BY DEF IInv, TypeOK
  <2>1. Unset \notin SUBSET Kinds
    BY DEF Unset, Kinds
  <2>2. Unset \notin {{"put"}, {"delete"}}
    BY DEF Unset
  <2> QED BY <2>1, <2>2 DEF DeliversWhatWasAsked, FilteredByServer, FilteredHere
<1> QED BY <1>1, Invariance, PTL
=============================================================================
