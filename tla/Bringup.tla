------------------------------ MODULE Bringup -------------------------------
(***************************************************************************)
(* The start and the end of quadrf-lora-phy: what main() takes hold of     *)
(* before its loop, in order, what it gives back behind it, and the ways   *)
(* out in between: an early return, an exception caught at the end of main *)
(* after the locals were destroyed, and the destruction of a std::thread   *)
(* that still runs, which ends the process on the spot.                    *)
(*                                                                         *)
(* Every step that runs quadrf-jtag, opens the device or sets up a stream  *)
(* may fail.  The loop itself is PhyTx and RxChain; here it only leaves    *)
(* the PA on or muted.                                                     *)
(***************************************************************************)
EXTENDS Integers, FiniteSets

VARIABLES
  buMode,      \* the options: [ota, rxOnly, selftest, legacy]
  buAt,        \* the step main() is at; "terminated", "exited"
  buHeld,      \* what it holds: descriptors, files, streams, threads
  buReg,       \* FPGA register 0x2E: "old", "zero", "loop"
  buSaved,     \* saved_reg: "old", or "zero" when it could not be read
  buRf,        \* the front end: [tx, rx: configured; bias: PA bias;
               \* disabled: FPGA disable_tx; readback: DOUT_SEL]
  buRunning,   \* g_running, which a signal clears
  buExit,      \* the exit code, "none" before
  buBlame      \* history: the step that failed last

buVars == <<buMode, buAt, buHeld, buReg, buSaved, buRf, buRunning, buExit, buBlame>>

Modes == [ota : BOOLEAN, rxOnly : BOOLEAN, selftest : BOOLEAN, legacy : BOOLEAN]

BringupInit ==
  /\ buMode = [ota |-> FALSE, rxOnly |-> FALSE, selftest |-> FALSE, legacy |-> FALSE]
  /\ buAt = "options" /\ buHeld = {} /\ buReg = "old" /\ buSaved = "old"
  /\ buRf = [tx |-> FALSE, rx |-> FALSE, bias |-> FALSE, disabled |-> FALSE,
             readback |-> FALSE]
  /\ buRunning = TRUE /\ buExit = "none" /\ buBlame = "none"

Transmits == ~buMode.rxOnly
Threads == {"txThread", "rxThread"}
Locals == {"device", "txStream", "rxStream", "active"}
Sockets == {"listen", "socketFile", "telemetry", "telemetryFile"}
Radiating == buRf.tx /\ buRf.bias /\ ~buRf.disabled
-----------------------------------------------------------------------------
To(step) == buAt' = step /\ UNCHANGED <<buExit, buBlame>>

Leave(code) == buAt' = "exited" /\ buExit' = code /\ UNCHANGED buBlame

(* An exception: what was built inside the try block is taken apart, last  *)
(* first, and a running thread ends the process there.                     *)
(* Mutant: the handler does not come to run.                               *)
Raise_Uncaught ==
  /\ buBlame' = buAt
  /\ buAt' = "exited" /\ buExit' = "error"
  /\ buHeld' = buHeld \ Locals
  /\ UNCHANGED <<buMode, buReg, buSaved>>

Raise ==
  /\ buBlame' = buAt
  /\ IF buHeld \cap Threads # {}
     THEN buAt' = "terminated" /\ UNCHANGED buHeld
     ELSE buAt' = "caught" /\ buHeld' = buHeld \ Locals
  /\ UNCHANGED <<buMode, buReg, buSaved, buExit>>

Holds(new) == buHeld' = buHeld \cup new
Radio(new) == buRf' = new
SameRf == UNCHANGED buRf
SameRadio == UNCHANGED <<buMode, buReg, buSaved, buRf>>
-----------------------------------------------------------------------------
(* The command line: refused, or one of the modes.  (A number std::stod    *)
(* cannot read ends the process too; nothing is held yet.)                 *)
ParseOptions ==
  /\ buAt = "options"
  /\ \/ \E m \in Modes : buMode' = m /\ To("pty")
     \/ Leave("error") /\ UNCHANGED buMode
  /\ UNCHANGED <<buHeld, buReg, buSaved, buRf>>

(* openPty: a new link to the slave replaces an old one; a link that       *)
(* cannot be made is only reported.                                        *)
OpenPty ==
  /\ buAt = "pty"
  /\ SameRadio
  /\ \/ /\ ~buMode.legacy \/ buMode.selftest
        /\ To("listen") /\ UNCHANGED buHeld
     \/ /\ buMode.legacy /\ ~buMode.selftest
        /\ \/ \E link \in {{}, {"link"}} : Holds({"pty"} \cup link) /\ To("listen")
           \/ Leave("error") /\ UNCHANGED buHeld

(* listenUnix: unlink, bind, listen.  Without it the PTY is closed, its    *)
(* link stays.                                                             *)
ListenUnix ==
  /\ buAt = "listen"
  /\ SameRadio
  /\ \/ buMode.selftest /\ To("save") /\ UNCHANGED buHeld
     \/ ~buMode.selftest /\ Holds({"listen", "socketFile"}) /\ To("telemetry")
     \/ ~buMode.selftest /\ buHeld' = buHeld \ {"pty"} /\ Leave("error")

(* listenUnixTelemetry; the program goes on without it.                    *)
ListenTelemetry ==
  /\ buAt = "telemetry"
  /\ SameRadio
  /\ To("save")
  /\ Holds({"telemetry", "telemetryFile"}) \/ UNCHANGED buHeld

SaveRegister ==
  /\ buAt = "save"
  /\ To("device")
  /\ buSaved' \in {buReg, "zero"}
  /\ UNCHANGED <<buMode, buHeld, buReg, buRf>>

(* RadioSession::open and setSampleRate.                                   *)
OpenDevice ==
  /\ buAt = "device"
  /\ \/ Holds({"device"}) /\ To("rates") /\ SameRadio
     \/ Raise /\ SameRf

SetRates ==
  /\ buAt = "rates"
  /\ \/ UNCHANGED buHeld /\ To("loopback") /\ SameRadio
     \/ Raise /\ SameRf

(* setDigitalLoopback; --rx-only without --ota returns from the try block, *)
(* which closes the device and leaves the sockets to the system.           *)
SetLoopback ==
  /\ buAt = "loopback"
  /\ \/ /\ buMode.ota
        /\ buReg' = "zero" /\ To(IF buMode.rxOnly THEN "rxOnly" ELSE "configureTx")
        /\ UNCHANGED <<buMode, buHeld, buSaved, buRf>>
     \/ /\ ~buMode.ota /\ Transmits
        /\ buReg' = "loop" /\ To("streams")
        /\ UNCHANGED <<buMode, buHeld, buSaved, buRf>>
     \/ /\ ~buMode.ota /\ ~Transmits
        /\ Leave("usage") /\ buHeld' = buHeld \ Locals
        /\ SameRadio
     \/ (buMode.ota \/ Transmits) /\ Raise /\ SameRf

(* One call of quadrf-jtag.  It may fail before or after the chip obeyed.  *)
Jtag(step, next, rf) ==
  /\ buAt = step
  /\ \/ Radio(rf) /\ To(next) /\ UNCHANGED <<buMode, buHeld, buReg, buSaved>>
     \/ Raise /\ buRf' \in {buRf, rf}

TxOffRxOnly == Jtag("rxOnly", "configureRx", [buRf EXCEPT !.tx = FALSE])

(* `--tx` puts the chip into TX mode with the PA enabled.                  *)
ConfigureTx ==
  Jtag("configureTx", "configureRx",
       [buRf EXCEPT !.tx = TRUE, !.bias = TRUE, !.disabled = FALSE])

ConfigureRx ==
  Jtag("configureRx", IF Transmits THEN "muteBias" ELSE "vco",
       [buRf EXCEPT !.rx = TRUE])

(* paMute: bias off, then disable_tx.                                      *)
PaMuteBias == Jtag("muteBias", "muteDisable", [buRf EXCEPT !.bias = FALSE])
PaMuteDisable == Jtag("muteDisable", "vco", [buRf EXCEPT !.disabled = TRUE])

(* programLo and readVco for both chips; failures are only reported.  A    *)
(* transaction whose write fails skips the writes that would have turned   *)
(* the read back off again.                                                *)
CheckVco ==
  /\ buAt = "vco"
  /\ To("streams")
  /\ \E stuck \in BOOLEAN : Radio([buRf EXCEPT !.readback = stuck])
  /\ UNCHANGED <<buMode, buHeld, buReg, buSaved>>
-----------------------------------------------------------------------------
(* StreamPair: setupTx and setupRx; then the threads; then activate, with  *)
(* both threads already running.                                           *)
SetupStreams ==
  /\ buAt = "streams"
  /\ \/ /\ Holds((IF Transmits THEN {"txStream"} ELSE {}) \cup {"rxStream"})
        /\ To("threads") /\ SameRadio
     \/ Raise /\ SameRf

(* g_running is set for the threads, over a signal that came before.        *)
StartThreads ==
  /\ buAt = "threads"
  /\ buRunning' = TRUE
  /\ Holds((IF Transmits THEN {"txThread"} ELSE {}) \cup {"rxThread"})
  /\ To("activate") /\ SameRadio

Activate ==
  /\ buAt = "activate"
  /\ \/ Holds({"active"}) /\ To("run") /\ SameRadio
     \/ Raise /\ SameRf

(* The loop: bursts turn the PA on and off.                                *)
RunBurst ==
  /\ buAt = "run" /\ buMode.ota /\ Transmits
  /\ \E on \in BOOLEAN : Radio([buRf EXCEPT !.bias = on, !.disabled = ~on])
  /\ UNCHANGED <<buMode, buAt, buHeld, buReg, buSaved, buExit, buBlame>>

(* onSignal, from the moment the handlers are there.                       *)
Signal ==
  /\ buAt \notin {"options", "exited", "terminated"}
  /\ buRunning' = FALSE
  /\ UNCHANGED <<buMode, buAt, buHeld, buReg, buSaved, buRf, buExit, buBlame>>

Stop ==
  /\ buAt = "run" /\ ~buRunning
  /\ To("join")
  /\ UNCHANGED <<buMode, buHeld, buReg, buSaved, buRf>>
-----------------------------------------------------------------------------
(* Behind the loop: threads, streams, PA, TX mode, register, sockets.      *)
JoinThreads ==
  /\ buAt = "join"
  /\ buHeld' = buHeld \ (Threads \cup {"active"})
  /\ To(IF buMode.ota THEN (IF Transmits THEN "mute" ELSE "txOff") ELSE "restore")
  /\ SameRadio

MuteAtEnd ==
  Jtag("mute", "txOff", [buRf EXCEPT !.bias = FALSE, !.disabled = TRUE])

TxOff == Jtag("txOff", "restore", [buRf EXCEPT !.tx = FALSE])

(* The handler's beginning is the same as the end's.                       *)
RestoreRegister ==
  /\ buAt \in {"restore", "caught"}
  /\ To(IF buAt = "restore" THEN "cleanup" ELSE "cleanupError")
  /\ buReg' = buSaved \/ UNCHANGED buReg
  /\ UNCHANGED <<buMode, buHeld, buSaved, buRf>>

(* cleanup_socks; a self test that received nothing exits with 1.          *)
CleanupSocks ==
  /\ buAt \in {"cleanup", "cleanupError"}
  /\ buHeld' = buHeld \ (Sockets \cup {"pty", "link"} \cup Locals)
  /\ \/ buAt = "cleanup" /\ Leave("ok")
     \/ buAt = "cleanupError" /\ Leave("error")
     \/ buAt = "cleanup" /\ buMode.selftest /\ Leave("failed")
  /\ SameRadio

BringupNext ==
  \/ StartThreads \/ Signal
  \/ /\ \/ ParseOptions \/ OpenPty \/ ListenUnix \/ ListenTelemetry \/ SaveRegister
        \/ OpenDevice \/ SetRates \/ SetLoopback
        \/ TxOffRxOnly \/ ConfigureTx \/ ConfigureRx \/ PaMuteBias \/ PaMuteDisable
        \/ CheckVco \/ SetupStreams \/ Activate \/ RunBurst \/ Stop
        \/ JoinThreads \/ MuteAtEnd \/ TxOff \/ RestoreRegister \/ CleanupSocks
     /\ UNCHANGED buRunning
-----------------------------------------------------------------------------
(* However it ends, main() has given back what it took: everything, but    *)
(* for the link of a PTY whose socket could not be opened and for the      *)
(* sockets of a call with the wrong options.  The PA is never left on      *)
(* behind an exit without error; with one it is only when the failure came *)
(* between the arming of TX and its mute, or in the mute itself.  The      *)
(* process is only torn down with its threads running when activate fails. *)
OrderlyExit ==
  /\ buAt = "exited" =>
       /\ buHeld \subseteq (IF buExit = "usage" THEN Sockets \cup {"pty", "link"}
                            ELSE IF buBlame = "none" /\ buExit = "error" THEN {"link"}
                            ELSE {})
       /\ Radiating => buExit = "error"
                       /\ buBlame \in {"configureTx", "configureRx", "muteBias", "mute"}
       /\ buExit = "ok" /\ buMode.ota => ~buRf.tx
  /\ buAt = "terminated" => buBlame = "activate" /\ ~Radiating
=============================================================================
