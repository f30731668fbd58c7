------------------------------ MODULE Startup ------------------------------
(***************************************************************************)
(* How main (chk_strm_entry.cpp:272-361) builds the program while its      *)
(* threads already run.  The constructors of CheckerBase and ReceiverBase  *)
(* create their thread, which calls a virtual function of an object whose  *)
(* derived part is not constructed yet: until the derived constructor is   *)
(* entered the call goes to the base class, and after that to a function   *)
(* whose members may still hold what the memory of the object held before. *)
(*                                                                         *)
(* A member is Null (a null pointer or false), Good once it is set, or     *)
(* Junk: not null and not set by the constructor.                          *)
(***************************************************************************)
EXTENDS Naturals, Sequences

CONSTANTS
  BufferNumber,              \* buffers in the pool; 10
  Options,                   \* what the command line may ask for
  Memory                     \* what an uninitialised member may hold

Null == "null"
Junk == "junk"
Good == "good"

ASSUME BufferNumberAssumption == BufferNumber \in Nat \ {0}
ASSUME OptionsAssumption ==
  Options \subseteq [mode : {"udp", "file", "none"},
                     type : {"DJI-H264", "Custom-H264", "invalid"},
                     filename : BOOLEAN]
ASSUME MemoryAssumption == Memory \subseteq {Null, Junk}

VARIABLES
  options,                   \* chk_info: mode, type, whether there is a file
  main,                      \* the constructor, or part of it, main is about
                             \* to run
  checkerClass,              \* the class the checker's vtable pointer names
  receiverClass,             \* the same for the receiver
  members,                   \* the members recvStream waits for and uses
  recvPc,                    \* where the receiver thread is
  filled,                    \* mFilledQ: what is in each queued buffer
  exit                       \* TRUE once the process has ended

objects    == <<checkerClass, receiverClass, members>>
threadVars == <<recvPc, filled>>
vars       == <<options, main, objects, threadVars, exit>>

NoClass == "none"

Init ==
  /\ options \in Options
  /\ main = "options"
  /\ checkerClass = NoClass
  /\ receiverClass = NoClass
  /\ members \in [{"mSockFd", "mInited", "mTmpBuffer", "mFp"} -> Memory]
  /\ recvPc = "not started"
  /\ filled = << >>
  /\ exit = FALSE

Step(from, to) == ~ exit /\ main = from /\ main' = to

Exit == exit' = TRUE /\ UNCHANGED <<main, objects, threadVars>>

(***************************************************************************)
(* main, lines 318-354: the checks of the options, the pool and the        *)
(* checker, whose constructor starts the checker thread and then sets the  *)
(* decoder up, or exits.  That a base constructor exits when no thread can *)
(* be started is left out: the other constructors' exits show as much.     *)
(***************************************************************************)
Accepted == /\ options.type # "invalid"
            /\ options.mode # "none"
            /\ options.mode = "file" => options.filename

CheckOptions ==
  /\ ~ exit
  /\ main = "options"
  /\ \/ /\ Accepted
        /\ main' = "CheckerBase"
        /\ UNCHANGED <<objects, threadVars, exit>>
     \/ ~ Accepted /\ Exit
  /\ UNCHANGED options

\* Mutant: the decoder is left to be set up later.
CheckerBaseCtorOnly ==
  /\ Step("CheckerBase", "ReceiverBase")
  /\ checkerClass' = "CheckerBase"
  /\ UNCHANGED <<options, receiverClass, members, threadVars, exit>>

CheckerBaseCtor ==
  /\ Step("CheckerBase", "H264Checker")
  /\ checkerClass' = "CheckerBase"
  /\ UNCHANGED <<options, receiverClass, members, threadVars, exit>>

H264CheckerCtor ==
  /\ ~ exit
  /\ main = "H264Checker"
  /\ \/ /\ main' = IF options.mode = "file" /\ options.type = "Custom-H264"
                     THEN "add AUD info" ELSE "ReceiverBase"
        /\ checkerClass' = "H264Checker"
        /\ UNCHANGED <<receiverClass, members, threadVars, exit>>
     \/ Exit
  /\ UNCHANGED options

(***************************************************************************)
(* addAudInfoForCustomH264, which AudInserter describes, returns or ends   *)
(* the process; the checker thread is running meanwhile.                   *)
(***************************************************************************)
AddAudInfo ==
  /\ ~ exit
  /\ main = "add AUD info"
  /\ \/ /\ main' = "ReceiverBase"
        /\ UNCHANGED <<objects, threadVars, exit>>
     \/ Exit
  /\ UNCHANGED options

(***************************************************************************)
(* The receiver.  UDP input is not supported for Custom-H264 streams.      *)
(***************************************************************************)
RefuseCustomUdp ==
  /\ ~ exit
  /\ main = "ReceiverBase"
  /\ options.mode = "udp"
  /\ options.type = "Custom-H264"
  /\ Exit
  /\ UNCHANGED options

ReceiverBaseCtor ==
  /\ options.mode = "udp" => options.type = "DJI-H264"
  /\ Step("ReceiverBase", "enter derived")
  /\ receiverClass' = "ReceiverBase"
  /\ recvPc' = "call"
  /\ UNCHANGED <<options, checkerClass, members, filled, exit>>

EnterDerivedCtor ==
  /\ Step("enter derived", "initialise")
  /\ receiverClass' = "derived"
  /\ UNCHANGED <<options, checkerClass, members, threadVars, exit>>

(***************************************************************************)
(* UdpReceiver sets mInited to false, opens and binds the socket and sets  *)
(* mInited; FileReceiver sets both pointers to null, then allocates the    *)
(* buffer and opens the file.  What cannot be opened ends the process.     *)
(***************************************************************************)
SetMembers(from, to, names, value) ==
  /\ Step(from, to)
  /\ members' = [n \in DOMAIN members |->
                   IF n \in names THEN value ELSE members[n]]
  /\ UNCHANGED <<options, checkerClass, receiverClass, threadVars, exit>>

\* Mutant: mInited is set before the socket is open.
UdpReceiverCtorEarly ==
  /\ options.mode = "udp"
  /\ \/ SetMembers("initialise", "open", {"mInited"}, Good)
     \/ SetMembers("open", "publish", {"mSockFd"}, Good)
     \/ SetMembers("publish", "sleep", {"mInited"}, Good)

\* Mutant: mInited is never set.
UdpReceiverCtorForgets ==
  /\ options.mode = "udp"
  /\ \/ SetMembers("initialise", "open", {"mInited"}, Null)
     \/ SetMembers("open", "sleep", {"mSockFd"}, Good)

UdpReceiverCtor ==
  /\ options.mode = "udp"
  /\ \/ SetMembers("initialise", "open", {"mInited"}, Null)
     \/ SetMembers("open", "publish", {"mSockFd"}, Good)
     \/ SetMembers("publish", "sleep", {"mInited"}, Good)

FileReceiverCtor ==
  /\ options.mode = "file"
  /\ \/ SetMembers("initialise", "open", {"mTmpBuffer", "mFp"}, Null)
     \/ SetMembers("open", "publish", {"mTmpBuffer"}, Good)
     \/ SetMembers("publish", "sleep", {"mFp"}, Good)

OpenFails ==
  /\ ~ exit
  /\ \/ main = "open"
     \/ main = "publish" /\ options.mode = "file"
  /\ Exit
  /\ UNCHANGED options

(***************************************************************************)
(* The receiver thread: threadRun takes an empty buffer, when there is     *)
(* one, and calls recvStream through the vtable pointer.  The base class   *)
(* fills the buffer up without touching the data (line 81).                *)
(***************************************************************************)
CallRecvStream ==
  /\ ~ exit
  /\ recvPc = "call"
  /\ Len(filled) < BufferNumber
  /\ recvPc' = receiverClass
  /\ UNCHANGED <<options, main, objects, filled, exit>>

Queue(content) ==
  /\ filled' = Append(filled, content)
  /\ recvPc' = "call"
  /\ UNCHANGED <<options, main, objects, exit>>

BaseRecvStream ==
  /\ ~ exit
  /\ recvPc = "ReceiverBase"
  /\ Queue("fake")

(***************************************************************************)
(* The recvStream of the derived class waits for its members to be set,    *)
(* then reads: a frame, or whatever uninitialised members lead to.         *)
(***************************************************************************)
Waits == IF options.mode = "udp"
           THEN members.mInited = Null
           ELSE members.mFp = Null \/ members.mTmpBuffer = Null

Ready == IF options.mode = "udp"
           THEN members.mInited = Good /\ members.mSockFd = Good
           ELSE members.mFp = Good /\ members.mTmpBuffer = Good

DerivedRecvStream ==
  /\ ~ exit
  /\ recvPc = "derived"
  /\ ~ Waits
  /\ Queue(IF Ready THEN "frame" ELSE "garbage")

(***************************************************************************)
(* The checker thread takes a queued buffer and gives it back.             *)
(***************************************************************************)
CheckStream ==
  /\ ~ exit
  /\ checkerClass # NoClass
  /\ filled # << >>
  /\ filled' = Tail(filled)
  /\ UNCHANGED <<options, main, objects, recvPc, exit>>

Constructors ==
  \/ CheckOptions \/ CheckerBaseCtor \/ H264CheckerCtor
  \/ AddAudInfo \/ RefuseCustomUdp
  \/ ReceiverBaseCtor \/ EnterDerivedCtor
  \/ UdpReceiverCtor \/ FileReceiverCtor

Next ==
  \/ Constructors \/ OpenFails
  \/ CallRecvStream \/ BaseRecvStream \/ DerivedRecvStream \/ CheckStream

Spec == Init /\ [][Next]_vars

(***************************************************************************)
(* No thread waits for another one here but through the pool, and a base   *)
(* recvStream or a check takes a bounded time: each keeps running.         *)
(***************************************************************************)
FairSpec ==
  /\ Spec
  /\ WF_vars(Constructors)
  /\ WF_vars(CallRecvStream)
  /\ WF_vars(BaseRecvStream)
  /\ WF_vars(CheckStream)

-----------------------------------------------------------------------------
TypeOK ==
  /\ options \in Options
  /\ main \in {"options", "CheckerBase", "H264Checker", "add AUD info",
               "ReceiverBase", "enter derived", "initialise", "open", "publish", "sleep"}
  /\ checkerClass \in {NoClass, "CheckerBase", "H264Checker"}
  /\ receiverClass \in {NoClass, "ReceiverBase", "derived"}
  /\ \A n \in DOMAIN members : members[n] \in {Null, Junk, Good}
  /\ recvPc \in {"not started", "call", "ReceiverBase", "derived"}
  /\ filled \in Seq({"fake", "garbage", "frame"})
  /\ Len(filled) <= BufferNumber
  /\ exit \in BOOLEAN

(***************************************************************************)
(* The checker thread, which is created before the decoder exists ("TODO:  *)
(* wait avcodec and avparser ctx is ready", h264_checker.cpp:114), finds a *)
(* buffer to check only after H264Checker is complete: neither the base    *)
(* checkStream nor a null decoder is ever used.                            *)
(***************************************************************************)
CheckerReadyForFrames == filled # << >> => checkerClass = "H264Checker"

(***************************************************************************)
(* recvStream of a derived class does not touch the socket or the file     *)
(* before they are open ("socket not inited yet, wait",                    *)
(* udp_receiver.cpp:120).                                                  *)
(***************************************************************************)
Contents == {filled[i] : i \in 1 .. Len(filled)}

ReceiverWaitsUntilOpen == "garbage" \notin Contents

(***************************************************************************)
(* A process that does not end reaches the real recvStream with everything *)
(* open, however many times the thread has called the base one before, and *)
(* even if the pool was full of its buffers.                               *)
(***************************************************************************)
RealRecvStreamReached == <>(exit \/ (recvPc = "derived" /\ Ready))

=============================================================================
