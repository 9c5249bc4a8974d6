---------------------------- MODULE StreamPrimary ----------------------------
(* src/audio/primary/StreamPrimary.cpp: the stream of the primary module,     *)
(* which plays or captures through one ALSA card, or through a stub where     *)
(* there is nothing to hear.  The module names the device, under a lock, from *)
(* a binder thread; the worker takes it over when it starts.  What            *)
(* StreamAlsa.tla has in detail, opening and closing, is one step here.       *)
EXTENDS Integers, FiniteSetsExt

CONSTANTS CardNames,       \* names of the sound cards, by their number
          DefaultDevice,   \* persist.vendor.audio.device
          ForcedCard       \* {persist.vendor.audio.pcm.card}, or {} if it is not set

ASSUME PrimaryAssumption ==
  /\ DOMAIN CardNames \subseteq 0..7 /\ ForcedCard \subseteq Int
  /\ DefaultDevice \in {"hdmi0", "hdmi1", "jack", "dac"}

VARIABLES
  primaryIsInput,
  mAlsaDeviceId,          \* card of the device that the module connected, or STUB
  mCurrAlsaDeviceId,      \* card that the worker uses, or STUB
  opened,                 \* cards that StreamAlsa has open
  starting,               \* "no", or the next step of start
  started                 \* the last start was successful, and nothing ended it

primaryVars == <<primaryIsInput, mAlsaDeviceId, mCurrAlsaDeviceId, opened, starting, started>>

STUB == -1

\* A card is known by its name; "dac" is a card that is none of the others.
Matches(name, device) ==
  CASE device = "jack"              -> name = "codec"
    [] device \in {"hdmi0", "hdmi1"} -> name = device
    [] device = "dac"               -> name \notin {"codec", "hdmi0", "hdmi1"}

\* getCardId: the first card that fits, or card 0
GetCardId(device) ==
  LET fitting == {i \in DOMAIN CardNames : Matches(CardNames[i], device)} IN
    IF ForcedCard # {} THEN Min(ForcedCard)
    ELSE IF fitting = {} THEN 0 ELSE Min(fitting)

PrimaryDevices ==
  {"none", "microphone", "headphone", "hdmi", "speaker", "telephony", "bus"}

UseStubStream(device) == device \in {"telephony", "bus"}

\* The card of a connected device
CardOf(device) ==
  CASE device = "none" \/ UseStubStream(device)      -> STUB
    [] primaryIsInput /\ device = "microphone"       -> GetCardId("jack")
    [] ~primaryIsInput /\ device = "headphone"       -> GetCardId("jack")
    [] ~primaryIsInput /\ device = "hdmi"            -> GetCardId("hdmi0")
    [] OTHER                                         -> GetCardId(DefaultDevice)

\* init: an output is connected to the default card, though nobody said so.
PrimaryInit ==
  /\ primaryIsInput \in BOOLEAN
  /\ mAlsaDeviceId = (IF primaryIsInput THEN STUB ELSE GetCardId(DefaultDevice))
  /\ mCurrAlsaDeviceId = STUB /\ opened = {} /\ starting = "no" /\ started = FALSE

IsStubStreamOnWorker == mCurrAlsaDeviceId = STUB
-----------------------------------------------------------------------------
\* More than one device is refused.
PrimarySetConnectedDevices(device) ==
  /\ mAlsaDeviceId' = CardOf(device)
  /\ UNCHANGED <<primaryIsInput, mCurrAlsaDeviceId, opened, starting, started>>

\* Mutant: the card before is left to whoever closes the stream.
StartKeepsDevice ==
  /\ starting = "no"
  /\ starting' = "open"
  /\ mCurrAlsaDeviceId' = mAlsaDeviceId
  /\ UNCHANGED <<primaryIsInput, mAlsaDeviceId, opened, started>>

\* start: with the lock, the worker takes the card over.
StartTakesDevice ==
  /\ starting = "no"
  /\ starting' = (IF mCurrAlsaDeviceId \notin {mAlsaDeviceId, STUB} THEN "shutdown" ELSE "open")
  /\ mCurrAlsaDeviceId' = mAlsaDeviceId
  /\ UNCHANGED <<primaryIsInput, mAlsaDeviceId, opened, started>>

StartShutsDown ==
  /\ starting = "shutdown" /\ starting' = "open" /\ opened' = {}
  /\ UNCHANGED <<primaryIsInput, mAlsaDeviceId, mCurrAlsaDeviceId, started>>

\* A stub starts; an open card resumes; another is opened, or is not.
StartOpens ==
  /\ starting = "open" /\ starting' = "no"
  /\ \/ /\ IsStubStreamOnWorker \/ opened # {}
        /\ started' = TRUE /\ UNCHANGED opened
     \/ /\ ~IsStubStreamOnWorker /\ opened = {}
        /\ \/ opened' = {mCurrAlsaDeviceId} /\ started' = TRUE
           \/ started' = FALSE /\ UNCHANGED opened
  /\ UNCHANGED <<primaryIsInput, mAlsaDeviceId, mCurrAlsaDeviceId>>

\* standby, and flush of an input: the stub has nothing to close.
PrimaryStandby ==
  /\ starting = "no" /\ started' = FALSE
  /\ opened' = IF IsStubStreamOnWorker THEN opened ELSE {}
  /\ UNCHANGED <<primaryIsInput, mAlsaDeviceId, mCurrAlsaDeviceId, starting>>

\* shutdown closes both.
PrimaryShutdown ==
  /\ starting = "no" /\ started' = FALSE /\ opened' = {}
  /\ UNCHANGED <<primaryIsInput, mAlsaDeviceId, mCurrAlsaDeviceId, starting>>

PrimaryNext ==
  \/ \E device \in PrimaryDevices : PrimarySetConnectedDevices(device)
  \/ StartTakesDevice \/ StartShutsDown \/ StartOpens \/ PrimaryStandby \/ PrimaryShutdown

PrimarySpec == PrimaryInit /\ [][PrimaryNext]_primaryVars
-----------------------------------------------------------------------------
(* The methods of the driver go by mCurrAlsaDeviceId: while it is the stub    *)
(* nothing is open behind it, which no standby would close, and a stream that *)
(* has started has that card open, and no other, for transfer ends the        *)
(* process without one (StreamPrimary.cpp:81-98, StreamAlsa.cpp:162).         *)
OpenedIsCurrent ==
  starting = "no" =>
    /\ opened \subseteq {mCurrAlsaDeviceId} \ {STUB}
    /\ started /\ ~IsStubStreamOnWorker => opened = {mCurrAlsaDeviceId}
=============================================================================
