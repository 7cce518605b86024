--------------------------- MODULE VirtioDevices ---------------------------
(***************************************************************************)
(* The VirtIO devices of a machine: the block device, a queue that the     *)
(* host fills (that of the console, network and input devices), and the    *)
(* keyboard and mouse.  Each has rings, registers and an interrupt line of *)
(* its own and they share only the thread they run on, so that a behaviour *)
(* exercises one of them, device, while the others stay as they were made. *)
(***************************************************************************)
EXTENDS VirtioBlock

CONSTANTS
    EventBuffers,                  \* buffers the guest has for input events
    RxData,                        \* of ManualQueue
    InputTypes, KeyCodes, Buttons  \* of VirtioInput

VARIABLES
    device,
    \* the variables of ManualQueue
    ravail, ravail_idx, rused, rused_idx, rlast_avail_idx, rint_status, rirq,
    rfree, rseen, rkick, rhandler, rready, contents,
    \* the variables of VirtioInput
    iready, iposted, ifilled, type, buttons_state, ret, pressed, unsure

rxVars == <<ravail, ravail_idx, rused, rused_idx, rlast_avail_idx, rint_status,
            rirq, rfree, rseen, rkick, rhandler, rready, contents>>
inputVars == <<iready, iposted, ifilled, type, buttons_state, ret, pressed, unsure>>
allVars == <<device, vars, rxVars, inputVars>>

Rx == INSTANCE ManualQueue WITH
    Data <- RxData, avail <- ravail, avail_idx <- ravail_idx,
    used <- rused, used_idx <- rused_idx, last_avail_idx <- rlast_avail_idx,
    int_status <- rint_status, irq <- rirq, free <- rfree, seen <- rseen,
    kick <- rkick, handler <- rhandler, ready <- rready

\* Data, the set of all events, is used in the type invariant only.
Input == INSTANCE VirtioInput WITH
    RxMax <- EventBuffers, Data <- {}, Types <- InputTypes, Codes <- KeyCodes,
    ready <- iready, posted <- iposted, filled <- ifilled

ASSUME DevicesAssumption == Rx!RxAssumption /\ Input!InputAssumption

DevicesInit ==
    /\ device \in {"block", "rx", "input"}
    /\ Init /\ Rx!Init /\ Input!Init
    /\ device # "input" => type = "keyboard"

BlockStep == device = "block" /\ Next /\ UNCHANGED <<device, rxVars, inputVars>>
RxStep    == device = "rx" /\ Rx!Next /\ UNCHANGED <<device, vars, inputVars>>
InputStep == device = "input" /\ Input!Next /\ UNCHANGED <<device, vars, rxVars>>

(* The driver of the queue that the host fills serves its interrupts.      *)
RxFairness == WF_rxVars(Rx!DriverStep)

DevicesSpec ==
    /\ DevicesInit /\ [][BlockStep \/ RxStep \/ InputStep]_allVars
    /\ device = "block" => Fairness
    /\ device = "rx" => RxFairness

-----------------------------------------------------------------------------
(* The properties of the parts, for this composition                       *)

(* The property of ManualQueue: the queue implements RxQueue.              *)
RefinesRxQueue == Rx!RefinesRxQueue

(* Every chain comes back to the driver: an I/O request of the block       *)
(* device, and a buffer that the host filled.                              *)
EveryChainReturns == EveryIoRequestReturns /\ Rx!FilledIsTaken

(* The property of VirtioInput: guest and device agree on the buttons.     *)
ViewsAgree == Input!ViewsAgree
=============================================================================
