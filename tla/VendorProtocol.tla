---------------------------- MODULE VendorProtocol ----------------------------
(***************************************************************************)
(* The class VendorProtocol of vendor_protocol_libusb.cpp, one action per  *)
(* libusb call it makes.  Between two of its libusb calls the device can   *)
(* disappear or come back, and every libusb call can fail.                 *)
(*                                                                         *)
(* libusb and the device are outside the repository.  They are modelled by *)
(* the contract the code is written against: contexts and device handles   *)
(* are counted, an interface stays claimed until it is released, an        *)
(* alternate setting stays selected until it is changed or the device      *)
(* leaves the bus.                                                         *)
(***************************************************************************)
EXTENDS Naturals, FiniteSets

CONSTANTS
  LastIf,   \* interfaces 0..LastIf are claimed, 1..LastIf have settings
  LastEp    \* input endpoints 0..LastEp are read by a poll, in this order

ASSUME LastIfAssumption == LastIf \in Nat \ {0}
ASSUME LastEpAssumption == LastEp \in Nat /\ LastEp >= 2

Interfaces    == 0..LastIf
AltInterfaces == 1..LastIf
Endpoints     == 0..LastEp

(* The endpoints whose fatal errors end a poll, 0x81 and 0x82: i < 2.      *)
ControlEndpoints == {0, 1}

FatalCodes == {"noDevice", "access"}
ReadCodes  == {"none", "transient"} \cup FatalCodes
WriteCodes == {"none", "io", "noDevice", "invalidParam"}

VARIABLES
  pc,          \* the next libusb call of the method being executed
  cont,        \* what called close(): who goes on when close() returns
  i,           \* loop index of the running loop
  ctx,         \* impl_->ctx is not null
  handle,      \* impl_->handle: null, a live device, or a device that left
  claimed,     \* impl_->claimed
  open,        \* impl_->open
  readErr,     \* last_read_error_code and last_read_error_endpoint
  writeErr,    \* last_write_error_code
  out,         \* the endpoints that delivered data in the last poll
  result,      \* the last method that returned, and what it returned
  attached,    \* the device is on the bus
  ctxCount,    \* library contexts that exist
  handleCount, \* device handles that exist
  osClaims,    \* interfaces the operating system holds for this process
  alt,         \* selected alternate setting of each streaming interface
  (* History, read by the properties only.                                 *)
  refused      \* interfaces left at 1 because their reset to 0 was refused

object   == <<ctx, handle, claimed, open>>
errors   == <<readErr, writeErr, out>>
settings == <<alt, refused>>
usb      == <<attached, ctxCount, handleCount, osClaims, settings>>
vars     == <<pc, cont, i, object, errors, result, usb>>

CloseSteps == {"alt0", "release", "closeHandle", "exit"}
OpenSteps  == {"init", "openDevice", "claim", "setAlt"}
Results    == [op : {"none", "open", "close", "poll", "send", "destroy"}, ok : BOOLEAN]
Callers    == {"close", "open", "failed", "destroy"}

TypeOK ==
  /\ pc \in {"idle", "read", "gone"} \cup CloseSteps \cup OpenSteps
  /\ cont \in Callers
  /\ i \in 0..(LastIf + LastEp + 1)
  /\ ctx \in BOOLEAN
  /\ handle \in {"null", "live", "stale"}
  /\ claimed \in [Interfaces -> BOOLEAN]
  /\ open \in BOOLEAN
  /\ readErr \in [code : ReadCodes, ep : Endpoints]
  /\ writeErr \in WriteCodes
  /\ out \in SUBSET Endpoints
  /\ result \in Results
  /\ attached \in BOOLEAN
  /\ ctxCount \in Nat
  /\ handleCount \in Nat
  /\ osClaims \in SUBSET Interfaces
  /\ alt \in [AltInterfaces -> {0, 1}]
  /\ refused \in SUBSET AltInterfaces

NoReadError == [code |-> "none", ep |-> 0]

Init ==
  /\ pc = "idle"
  /\ cont = "close"
  /\ i = 0
  /\ ctx = FALSE
  /\ handle = "null"
  /\ claimed = [f \in Interfaces |-> FALSE]
  /\ open = FALSE
  /\ readErr = NoReadError
  /\ writeErr = "none"
  /\ out = {}
  /\ result = [op |-> "none", ok |-> TRUE]
  /\ attached \in BOOLEAN
  /\ ctxCount = 0
  /\ handleCount = 0
  /\ osClaims = {}
  /\ alt = [f \in AltInterfaces |-> 0]
  /\ refused = {}

IsOpen == open /\ handle # "null"

Return(op, ok) ==
  /\ pc' = "idle"
  /\ result' = [op |-> op, ok |-> ok]

------------------------------------------------------------------------------
(* close(), which open(), a failing open() and the destructor run as well. *)

\* Mutant: the settings are not taken back.
EnterCloseKeepsSettings(caller) ==
  /\ cont' = caller
  /\ i' = 0
  /\ pc' = IF handle # "null" THEN "release" ELSE "exit"

\* Mutant: releasing the interfaces is left to libusb_close.
EnterCloseKeepsClaims(caller) ==
  /\ cont' = caller
  /\ i' = 0
  /\ pc' = IF handle # "null" THEN "closeHandle" ELSE "exit"

\* Mutant: the handle is only closed when the session was complete.
EnterCloseIfOpen(caller) ==
  /\ cont' = caller
  /\ i' = 1
  /\ pc' = IF IsOpen THEN "alt0" ELSE "exit"

EnterClose(caller) ==
  /\ cont' = caller
  /\ i' = 1
  /\ pc' = IF handle # "null" THEN "alt0" ELSE "exit"

CallClose ==
  /\ pc = "idle"
  /\ EnterClose("close")
  /\ UNCHANGED <<object, errors, result, usb>>

CallOpen ==
  /\ pc = "idle"
  /\ EnterClose("open")
  /\ UNCHANGED <<object, errors, result, usb>>

CallDestroy ==
  /\ pc = "idle"
  /\ EnterClose("destroy")
  /\ UNCHANGED <<object, errors, result, usb>>

\* Mutant: a setting that could not be taken back is tried again.
ResetAltRetries ==
  /\ pc = "alt0"
  /\ \/ /\ handle = "live" /\ i \in osClaims
        /\ alt' = [alt EXCEPT ![i] = 0]
        /\ refused' = refused \ {i}
        /\ IF i < LastIf THEN i' = i + 1 /\ pc' = "alt0"
                         ELSE i' = 0     /\ pc' = "release"
     \/ UNCHANGED <<pc, i, settings>>
  /\ UNCHANGED <<cont, object, errors, result, attached, ctxCount, handleCount, osClaims>>

(* Setting 0 is selected or refused by a device that is there, and without *)
(* effect on one that left (NO_DEVICE) or on an interface that this        *)
(* process has not claimed (NOT_FOUND).  The result is ignored.            *)
ResetAlt ==
  /\ pc = "alt0"
  /\ \/ /\ handle = "live" /\ i \in osClaims
        /\ alt' = [alt EXCEPT ![i] = 0]
        /\ refused' = refused \ {i}
     \/ /\ handle = "live" /\ i \in osClaims /\ alt[i] = 1
        /\ refused' = refused \cup {i}
        /\ UNCHANGED alt
     \/ /\ ~(handle = "live" /\ i \in osClaims)
        /\ UNCHANGED settings
  /\ IF i < LastIf THEN i' = i + 1 /\ pc' = "alt0"
                   ELSE i' = 0     /\ pc' = "release"
  /\ UNCHANGED <<cont, object, errors, result, attached, ctxCount, handleCount, osClaims>>

Release ==
  /\ pc = "release"
  /\ claimed' = [claimed EXCEPT ![i] = FALSE]
  /\ osClaims' = IF claimed[i] THEN osClaims \ {i} ELSE osClaims
  /\ IF i < LastIf THEN i' = i + 1 /\ pc' = "release"
                   ELSE i' = 0     /\ pc' = "closeHandle"
  /\ UNCHANGED <<cont, ctx, handle, open, errors, result,
                 attached, ctxCount, handleCount, settings>>

CloseHandle ==
  /\ pc = "closeHandle"
  /\ handle' = "null"
  /\ handleCount' = handleCount - 1
  /\ pc' = "exit"
  /\ UNCHANGED <<cont, i, ctx, claimed, open, errors, result,
                 attached, ctxCount, osClaims, settings>>

(* libusb_exit, then open = false, then back to the caller of close().     *)
Exit ==
  /\ pc = "exit"
  /\ ctx' = FALSE
  /\ ctxCount' = IF ctx THEN ctxCount - 1 ELSE ctxCount
  /\ open' = FALSE
  /\ \/ cont = "close"   /\ Return("close", TRUE)
     \/ cont = "open"    /\ pc' = "init" /\ UNCHANGED result
     \/ cont = "failed"  /\ Return("open", FALSE)
     \/ cont = "destroy" /\ pc' = "gone" /\ result' = [op |-> "destroy", ok |-> TRUE]
  /\ UNCHANGED <<cont, i, handle, claimed, errors, attached, handleCount, osClaims, settings>>

------------------------------------------------------------------------------
(* The rest of open(), after its initial close().                          *)

\* Mutant: a failing open() returns without close().
AbortOpenLeaks ==
  /\ Return("open", FALSE)
  /\ UNCHANGED <<cont, i, object, errors, usb>>

(* A failing open() closes what it has acquired and returns false.         *)
AbortOpen ==
  /\ EnterClose("failed")
  /\ UNCHANGED <<object, errors, result, usb>>

InitFails ==
  /\ pc = "init"
  /\ Return("open", FALSE)
  /\ UNCHANGED <<cont, i, object, errors, usb>>

LibInit ==
  /\ pc = "init"
  /\ ctx' = TRUE
  /\ ctxCount' = ctxCount + 1
  /\ pc' = "openDevice"
  /\ UNCHANGED <<cont, i, handle, claimed, open, errors, result,
                 attached, handleCount, osClaims, settings>>

OpenDeviceFails ==
  /\ pc = "openDevice"
  /\ AbortOpen

OpenDevice ==
  /\ pc = "openDevice"
  /\ attached
  /\ handle' = "live"
  /\ handleCount' = handleCount + 1
  /\ i' = 0
  /\ pc' = "claim"
  /\ UNCHANGED <<cont, ctx, claimed, open, errors, result,
                 attached, ctxCount, osClaims, settings>>

ClaimFails ==
  /\ pc = "claim"
  /\ AbortOpen

Claim ==
  /\ pc = "claim"
  /\ handle = "live"
  /\ claimed' = [claimed EXCEPT ![i] = TRUE]
  /\ osClaims' = osClaims \cup {i}
  /\ IF i < LastIf THEN i' = i + 1 /\ pc' = "claim"
                   ELSE i' = 1     /\ pc' = "setAlt"
  /\ UNCHANGED <<cont, ctx, handle, open, errors, result,
                 attached, ctxCount, handleCount, settings>>

SetAltFails ==
  /\ pc = "setAlt"
  /\ AbortOpen

SetAlt ==
  /\ pc = "setAlt"
  /\ handle = "live"
  /\ alt' = [alt EXCEPT ![i] = 1]
  /\ refused' = refused \ {i}
  /\ IF i < LastIf
       THEN /\ i' = i + 1
            /\ pc' = "setAlt"
            /\ UNCHANGED <<open, readErr, writeErr, result>>
       ELSE /\ i' = 0
            /\ open' = TRUE
            /\ readErr' = NoReadError
            /\ writeErr' = "none"
            /\ Return("open", TRUE)
  /\ UNCHANGED <<cont, ctx, handle, claimed, out,
                 attached, ctxCount, handleCount, osClaims>>

------------------------------------------------------------------------------
(* poll() and sendRawTransfer().                                           *)

PollClosed ==
  /\ pc = "idle"
  /\ ~IsOpen
  /\ Return("poll", FALSE)
  /\ UNCHANGED <<cont, i, object, errors, usb>>

CallPoll ==
  /\ pc = "idle"
  /\ IsOpen
  /\ out' = {}
  /\ readErr' = NoReadError
  /\ i' = 0
  /\ pc' = "read"
  /\ UNCHANGED <<cont, object, writeErr, result, usb>>

(* Go on with the next endpoint, or return true after the last one.        *)
NextEndpoint ==
  IF i < LastEp THEN i' = i + 1 /\ pc' = "read" /\ UNCHANGED result
                ELSE i' = 0 /\ Return("poll", TRUE)

(* The bulk transfer brings data, or nothing (no bytes or a timeout).      *)
ReadCompletes ==
  /\ pc = "read"
  /\ handle = "live"
  /\ out' \in {out, out \cup {i}}
  /\ NextEndpoint
  /\ UNCHANGED <<cont, object, readErr, writeErr, usb>>

(* Errors a transfer can end with: a device that has left answers with     *)
(* NO_DEVICE, or with the I/O error of the transfer that was cut short.    *)
ReadErrors == IF handle = "live" THEN {"transient", "access"} ELSE {"transient", "noDevice"}

\* Mutant: the exception for the stream endpoints is forgotten.
EndsPollOnAnyEndpoint(code, ep) == code \in FatalCodes

(* A fatal error ends the poll only on the two control endpoints: the      *)
(* streams are optional while a device starts.                             *)
EndsPoll(code, ep) == code \in FatalCodes /\ ep \in ControlEndpoints

ReadFails ==
  /\ pc = "read"
  /\ \E code \in ReadErrors :
       /\ readErr' = [code |-> code, ep |-> i]
       /\ IF EndsPoll(code, i) THEN i' = 0 /\ Return("poll", FALSE)
                               ELSE NextEndpoint
  /\ UNCHANGED <<cont, object, writeErr, out, usb>>

SendRawTransfer ==
  /\ pc = "idle"
  /\ writeErr' \in IF ~IsOpen THEN {"invalidParam"}
                   ELSE IF handle = "live" THEN {"none", "io"} ELSE {"io", "noDevice"}
  /\ Return("send", writeErr' = "none")
  /\ UNCHANGED <<cont, i, object, readErr, out, usb>>

------------------------------------------------------------------------------
(* The device.  Losing it ends the claims on its interfaces and turns an   *)
(* open handle into one that only returns errors; a device that comes back *)
(* is another device, with all its settings at 0.                          *)

Unplug ==
  /\ attached
  /\ attached' = FALSE
  /\ handle' = IF handle = "live" THEN "stale" ELSE handle
  /\ osClaims' = {}
  /\ alt' = [f \in AltInterfaces |-> 0]
  /\ refused' = {}
  /\ UNCHANGED <<pc, cont, i, ctx, claimed, open, errors, result, ctxCount, handleCount>>

Plug ==
  /\ ~attached
  /\ attached' = TRUE
  /\ UNCHANGED <<pc, cont, i, object, errors, result, ctxCount, handleCount, osClaims, settings>>

------------------------------------------------------------------------------
Call == CallOpen \/ CallClose \/ CallDestroy \/ CallPoll \/ PollClosed \/ SendRawTransfer

CloseStep == ResetAlt \/ Release \/ CloseHandle \/ Exit

OpenStep ==
  \/ InitFails \/ LibInit
  \/ OpenDeviceFails \/ OpenDevice
  \/ ClaimFails \/ Claim
  \/ SetAltFails \/ SetAlt

PollStep == ReadCompletes \/ ReadFails

Next == Call \/ CloseStep \/ OpenStep \/ PollStep \/ Unplug \/ Plug

Spec == Init /\ [][Next]_vars

(* Every libusb call of these methods returns: transfers carry a timeout   *)
(* and control requests have libusb's own.  Nothing obliges the driver to  *)
(* make a further call or the device to move.                              *)
FairSpec == Spec /\ WF_vars(CloseStep \/ OpenStep \/ PollStep)

------------------------------------------------------------------------------
(* Properties.                                                             *)

(* The guarantee that a caller of open(), close() and the destructor       *)
(* relies on: when a method has returned, an open session owns exactly one *)
(* context and one handle and has claimed every interface, and without a   *)
(* session nothing is left behind in libusb or in the operating system,    *)
(* whichever call of open() failed and whenever the device left.           *)
ResourcesMatchSession ==
  pc \in {"idle", "gone"} =>
    IF IsOpen
      THEN /\ ctxCount = 1 /\ handleCount = 1
           /\ \A f \in Interfaces : claimed[f]
           /\ handle = "live" => osClaims = Interfaces
      ELSE ctxCount = 0 /\ handleCount = 0 /\ osClaims = {}

(* A device that stays on the bus has all its settings at 1 under an open  *)
(* session.  Without one a setting is only left at 1 where the device      *)
(* refused its reset, a result that close() ignores: whichever call of     *)
(* open() failed, close() asks for the reset of every setting that was     *)
(* made, and does so while the interface is still claimed.                 *)
SettingsMatchSession ==
  pc \in {"idle", "gone"} =>
    \A f \in AltInterfaces :
      IF IsOpen /\ handle = "live" THEN alt[f] = 1 ELSE alt[f] = 1 => f \in refused

(* libusb_exit is never called under an open handle, which would leave the *)
(* handle pointing into a destroyed context.                               *)
ContextOutlivesHandle == handleCount > 0 => ctxCount > 0

(* What the driver node logs after a poll agrees with what poll() told it: *)
(* a poll of an open session fails exactly when the error it recorded last *)
(* is a fatal one of a control endpoint.  Errors of the streams, and those *)
(* recorded before, never hide it and never stand for it.                  *)
PollVerdict ==
  pc = "idle" /\ IsOpen /\ result.op = "poll" =>
    (~result.ok <=> readErr.code \in {"noDevice", "access"} /\ readErr.ep < 2)

(* open(), close(), poll() and the destructor return whatever the device   *)
(* does in the meantime: no loop over interfaces or endpoints waits for it. *)
CallsReturn == pc \notin {"idle", "gone"} ~> pc \in {"idle", "gone"}

------------------------------------------------------------------------------
(* The inductive invariant: what the methods know at each of their calls.  *)

AllClaimed  == \A f \in Interfaces : claimed[f]
NoneClaimed == \A f \in Interfaces : ~claimed[f]
AltReset    == \A f \in AltInterfaces : alt[f] = 1 => f \in refused
AltOne      == \A f \in AltInterfaces : alt[f] = 1

(* The counts of libusb and the claims of the operating system are what    *)
(* the object's own fields say they are.                                   *)
Bookkeeping ==
  /\ ctxCount = IF ctx THEN 1 ELSE 0
  /\ handleCount = IF handle = "null" THEN 0 ELSE 1
  /\ handle # "null" => ctx
  /\ handle = "null" => NoneClaimed
  /\ handle = "live" => attached
  /\ osClaims = IF handle = "live" THEN {f \in Interfaces : claimed[f]} ELSE {}
  /\ \A f \in AltInterfaces : alt[f] = 1 => f \in osClaims \cup refused

AtIdle ==
  IF open THEN /\ handle # "null" /\ AllClaimed
               /\ handle = "live" => AltOne
          ELSE ~ctx

AtRead ==
  /\ open /\ handle # "null" /\ AllClaimed
  /\ handle = "live" => AltOne
  /\ i \in Endpoints
  /\ ~(readErr.code \in FatalCodes /\ readErr.ep \in ControlEndpoints)

AtAlt0 ==
  /\ handle # "null" /\ i \in AltInterfaces
  /\ \A f \in AltInterfaces : f < i /\ alt[f] = 1 => f \in refused

AtRelease ==
  /\ handle # "null" /\ i \in Interfaces /\ AltReset
  /\ \A f \in Interfaces : f < i => ~claimed[f]

AtCloseHandle == handle # "null" /\ AltReset /\ NoneClaimed

AtExit == handle = "null"

AtInit == ~ctx /\ ~open

AtOpenDevice == ctx /\ handle = "null" /\ ~open

AtClaim ==
  /\ handle # "null" /\ ~open /\ i \in Interfaces
  /\ \A f \in Interfaces : f < i => claimed[f]

AtSetAlt ==
  /\ handle # "null" /\ ~open /\ i \in AltInterfaces /\ AllClaimed
  /\ handle = "live" => \A f \in AltInterfaces : f < i => alt[f] = 1

AtGone == ~ctx /\ ~open

AtEachCall ==
  /\ pc = "idle"        => AtIdle
  /\ pc = "read"        => AtRead
  /\ pc = "alt0"        => AtAlt0
  /\ pc = "release"     => AtRelease
  /\ pc = "closeHandle" => AtCloseHandle
  /\ pc = "exit"        => AtExit
  /\ pc = "init"        => AtInit
  /\ pc = "openDevice"  => AtOpenDevice
  /\ pc = "claim"       => AtClaim
  /\ pc = "setAlt"      => AtSetAlt
  /\ pc = "gone"        => AtGone

IInv == TypeOK /\ Bookkeeping /\ PollVerdict /\ AtEachCall

------------------------------------------------------------------------------
(* The class implements the all-or-nothing session the driver relies on.   *)

callBar ==
  CASE pc \in {"idle", "gone"} -> "none"
    [] pc = "read"             -> "poll"
    [] pc \in OpenSteps        -> "open"
    [] OTHER                   -> IF cont = "failed" THEN "open" ELSE cont

sessionBar ==
  IF pc = "gone" THEN "gone" ELSE IF IsOpen THEN "open" ELSE "closed"

heldBar ==
  CASE ctxCount = 0 /\ handleCount = 0 /\ osClaims = {}        -> "nothing"
    [] ctxCount = 1 /\ handleCount = 1 /\ \A f \in Interfaces : claimed[f]
                                                               -> "everything"
    [] OTHER                                                   -> "partial"

Session == INSTANCE VendorSession WITH
             call <- callBar, session <- sessionBar, held <- heldBar

(* Every behaviour of the class, with any failures and any movements of    *)
(* the device, is one of VendorSession: open() acquires all or nothing.    *)
SessionSpec == Session!Spec
==============================================================================
