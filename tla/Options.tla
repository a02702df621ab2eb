------------------------------- MODULE Options -------------------------------
(* New (etcd.go, options.go): the options are applied from left to right,    *)
(* validated as a group, and a client is built from them; the Provider that  *)
(* comes out reads, watches and backs off as they say.  An argument is       *)
(* "zero", Go's zero value, or "some", unless something depends on its       *)
(* value.  Options that only store a value the other modules take as a       *)
(* constant are left out.                                                    *)
EXTENDS KeyRange, Backoff, FiniteSets

CONSTANTS
  Keys,         \* keys of the store
  Names,        \* arguments of WithKey and WithPrefix, the empty one included
  Bounds,       \* arguments of WithReconnectBackoff
  DefaultMin, DefaultMax,
  MaxOptions    \* bound on the number of options given to New

Kinds == {"put", "delete"}
Unset == {"unset"}    \* no WithEventFilter

ASSUME OptionsAssumption ==
  /\ Keys \subseteq Seq(0..Top) \ {<<>>} /\ Names \subseteq Seq(0..Top)
  /\ Bounds \subseteq (-Half)..(Half - 1)
  /\ {DefaultMin, DefaultMax} \subseteq 1..(Half - 1) /\ DefaultMin <= DefaultMax
  /\ MaxOptions \in Nat

VARIABLES
  pc,           \* "applying", "building", "ready", "rejected", "failed"
  settings,     \* the values stored, one field per option
  wasSet,       \* the ...Set flags that are up
  given,        \* ghost: the options that were applied
  config        \* what clientv3.New was called with

optionVars == <<settings, wasSet, given>>
vars == <<pc, optionVars, config, boundVars, sleepVars>>

Args == {"zero", "some"}
Empty == <<>>
TLSFiles == {"cert", "key", "ca"}

\* The options that describe the built-in client, with their arguments.
ConnectionArgs ==
  [endpoints |-> Args, srv |-> Args, dialTimeout |-> Args, keepAlive |-> Args,
   autoSync |-> Args, auth |-> Args, authProvider |-> Args, tls |-> Args,
   tlsFiles |-> SUBSET TLSFiles, tlsServerName |-> Args, clientCtx |-> Args]
ConnectionOptions == DOMAIN ConnectionArgs

\* The rest, WithClient first.
OtherArgs ==
  [client |-> Args, key |-> Names, prefix |-> Names, blob |-> {TRUE},
   unflatten |-> BOOLEAN, eventFilter |-> SUBSET Kinds]

\* newSettings.
Defaults ==
  [o \in ConnectionOptions \cup DOMAIN OtherArgs |->
     CASE o = "tlsFiles" -> {}
       [] o \in {"key", "prefix"} -> Empty
       [] o = "blob" -> FALSE
       [] o = "unflatten" -> TRUE
       [] o = "eventFilter" -> Unset
       [] o = "dialTimeout" -> "some"
       [] OTHER -> "zero"]

NoConfig == [endpoints |-> {}, login |-> {}, tls |-> {}, autoSync |-> "asked"]

Init ==
  /\ pc = "applying"
  /\ settings = Defaults /\ wasSet = {} /\ given = {}
  /\ config = NoConfig
  /\ reconnectMin = DefaultMin /\ reconnectMax = DefaultMax
  /\ BackoffInit

-----------------------------------------------------------------------------
(* Applying options.                                                         *)

\* The flag a connection option raises: the credentials have one in common, and
\* so has everything about TLS.
BugKeepAliveUnflagged(o) ==
  CASE o \in {"auth", "authProvider"} -> {"authSet"}
    [] o \in {"tls", "tlsFiles", "tlsServerName"} -> {"tlsSet"}
    [] o = "keepAlive" -> {}
    [] OTHER -> {o}
Flag(o) ==
  CASE o \in {"auth", "authProvider"} -> {"authSet"}
    [] o \in {"tls", "tlsFiles", "tlsServerName"} -> {"tlsSet"}
    [] OTHER -> {o}

More == pc = "applying" /\ Cardinality(given) < MaxOptions

ApplyConnection ==
  /\ More
  /\ \E o \in ConnectionOptions : \E arg \in ConnectionArgs[o] :
       /\ settings' = [settings EXCEPT ![o] = arg]
       /\ wasSet' = wasSet \cup Flag(o)
       /\ given' = given \cup {o}
  /\ UNCHANGED <<pc, config, boundVars, sleepVars>>

ApplyOther ==
  /\ More
  /\ \E o \in DOMAIN OtherArgs : \E arg \in OtherArgs[o] :
       /\ settings' = [settings EXCEPT ![o] = arg]
       /\ given' = given \cup {o}
  /\ UNCHANGED <<pc, wasSet, config, boundVars, sleepVars>>

\* WithReconnectBackoff.
ApplyBackoff ==
  /\ More
  /\ reconnectMin' \in Bounds /\ reconnectMax' \in Bounds
  /\ given' = given \cup {"reconnectBackoff"}
  /\ UNCHANGED <<pc, settings, wasSet, config, sleepVars>>

-----------------------------------------------------------------------------
(* Validation: New returns ErrNoMode or ErrOptionConflict.                   *)

HasNonDefaultClientConfig == wasSet # {}

BugBothModes == settings.key = Empty /\ settings.prefix = Empty
BadMode ==
  \/ (settings.key = Empty) = (settings.prefix = Empty)
  \/ settings.blob /\ (settings.key = Empty \/ settings.unflatten)

Invalid ==
  \/ settings.client = "some" /\ HasNonDefaultClientConfig
  \/ settings.authProvider = "some" /\ settings.auth = "some"
  \/ BadMode
  \/ settings.tls = "some" /\ settings.tlsFiles # {}

Validate ==
  /\ pc = "applying"
  /\ pc' = IF Invalid THEN "rejected"
           ELSE IF settings.client = "some" THEN "ready" ELSE "building"
  /\ UNCHANGED <<optionVars, config, boundVars, sleepVars>>

-----------------------------------------------------------------------------
(* buildClient.                                                              *)

Some(options) == {o \in options : settings[o] = "some"}

\* The provider's credentials replace those of WithAuth.
Login ==
  IF settings.authProvider = "some" THEN {"authProvider"} ELSE Some({"auth"})

\* A certificate without its key, or the reverse, is not loaded; a server name
\* needs a configuration to go into.
TLSSource ==
  IF settings.tls = "some" THEN {"tls"}
  ELSE IF {"cert", "key"} \subseteq settings.tlsFiles THEN settings.tlsFiles
  ELSE settings.tlsFiles \cap {"ca"}
TLSConfig ==
  TLSSource \cup (IF settings.tls = "zero" /\ settings.tlsFiles = {} THEN {}
                 ELSE Some({"tlsServerName"}))

\* defaultIfZero.
AutoSyncInterval == IF settings.autoSync = "zero" THEN "30s" ELSE "asked"

BuildClient ==
  /\ pc = "building"
  /\ pc' = "ready"
  /\ config' = [endpoints |-> Some({"endpoints", "srv"}), login |-> Login,
                tls |-> TLSConfig, autoSync |-> AutoSyncInterval]
  /\ UNCHANGED <<optionVars, boundVars, sleepVars>>

\* The credentials, the SRV lookup, a file or clientv3.New fails.
BuildFails ==
  /\ pc = "building"
  /\ pc' = "failed"
  /\ UNCHANGED <<optionVars, config, boundVars, sleepVars>>

-----------------------------------------------------------------------------
(* What the Provider does with its settings.                                 *)

UnderPrefix(p) == {k \in Keys : InRange(k, p, PrefixEnd(p))}

\* readCtx, and the read of a resync: ReadBytes in blob mode, else Read.
ReadKeys ==
  IF settings.key # Empty THEN Keys \cap {settings.key} ELSE UnderPrefix(settings.prefix)
ResyncKeys == IF settings.blob THEN Keys \cap {settings.key} ELSE ReadKeys

\* watchKey and watchOpts.
WatchKey == IF settings.key # Empty THEN settings.key ELSE settings.prefix
WatchKeys ==
  IF settings.prefix # Empty THEN UnderPrefix(WatchKey) ELSE Keys \cap {WatchKey}

\* The kinds etcd does not send, by watchOpts; and those translateEvent drops.
BugFiltersSwapped == IF settings.eventFilter = {"put"} THEN {"put"} ELSE {}
FilteredByServer ==
  IF settings.eventFilter \in {{"put"}, {"delete"}}
  THEN Kinds \ settings.eventFilter ELSE {}
FilteredHere == IF settings.eventFilter = Unset THEN {} ELSE Kinds \ settings.eventFilter

\* The watch loop sleeps and makes progress.
Backoffs == pc = "ready" /\ (Sleep \/ Progress) /\ UNCHANGED <<pc, optionVars, config>>

Next ==
  \/ ApplyConnection \/ ApplyOther \/ ApplyBackoff
  \/ Validate \/ BuildClient \/ BuildFails
  \/ Backoffs

Spec == Init /\ [][Next]_vars

-----------------------------------------------------------------------------
(* Properties.                                                               *)

\* Every variable keeps its type.
TypeOK ==
  /\ pc \in {"applying", "building", "ready", "rejected", "failed"}
  /\ DOMAIN settings = DOMAIN Defaults
  /\ settings.key \in Names \cup {Empty} /\ settings.prefix \in Names \cup {Empty}
  /\ settings.tlsFiles \subseteq TLSFiles
  /\ settings.eventFilter \in {Unset} \cup SUBSET Kinds
  /\ {settings.blob, settings.unflatten, panicked} \subseteq BOOLEAN
  /\ {reconnectMin, reconnectMax, delay} \subseteq (-Half)..(Half - 1)
  /\ attempt \in 0..MaxAttempts

\* An option that New accepts is not dropped in favour of another, whatever the
\* order they came in: with WithClient there was none for the built-in client,
\* even one with a zero argument; without it, credentials, TLS settings and
\* endpoints all reach the client.  (A certificate without its key does not, nor
\* does a server name without TLS.)
NoSilentDrop ==
  pc = "ready" =>
    IF settings.client = "some" THEN given \cap ConnectionOptions = {}
    ELSE /\ Some({"auth", "authProvider"}) = config.login
         /\ Some({"endpoints", "srv"}) = config.endpoints
         /\ Some({"tls"}) \cup (settings.tlsFiles \cap {"ca"}) \subseteq config.tls

\* Read, the resync after a compaction, and the watch are about the same keys:
\* those of one key or of one prefix, never of both.
WatchCoversRead ==
  pc = "ready" => ReadKeys = WatchKeys /\ ResyncKeys = WatchKeys

\* The watch delivers the kinds of events that were asked for, both if none were,
\* with what etcd filters and what the watch filters again taken together.
DeliversWhatWasAsked ==
  Kinds \ (FilteredByServer \cup FilteredHere) =
    IF settings.eventFilter = Unset THEN Kinds ELSE settings.eventFilter
=============================================================================
