---------------------------- MODULE DataMover ----------------------------
(***************************************************************************)
(* The AXI DataMover behind one DRAM port of the SHELL's memory subsystem, *)
(* as the store-and-forward echo roles see it.  It is not code of this     *)
(* repository (it is a vendor core); it is the environment of the roles    *)
(* in RoleEchoStoreAndForward.cpp and EchoStoreAndForward.cpp, which post  *)
(* mmCmd(address, byte count) commands on a write (S2MM) and a read (MM2S) *)
(* path and exchange data beats and mmStatus words with it.                *)
(*                                                                         *)
(* A port is a record:                                                     *)
(*   wrCmd, wrData, wrSts   the S2MM command, data and status streams;     *)
(*   rdCmd, rdData, rdSts   the MM2S command, data and status streams;     *)
(*   mem                    the memory image: address -> beats stored;     *)
(*   buf                    the beats of the write in progress;            *)
(*   pos                    the beats of the read in progress sent so far. *)
(* The S2MM side stores the beats of one command up to the beat with       *)
(* last set and then posts one status; the MM2S side returns the beats     *)
(* stored at the command's address one per step, the last one with last   *)
(* set, and then posts one read status when the port has that stream.     *)
(* The byte count of a command is not used to cut the stream: the roles'   *)
(* byte counts are checked by properties of the modules that post them.    *)
(***************************************************************************)
EXTENDS Naturals, Sequences

PortInit(addrs) ==
    [wrCmd |-> <<>>, wrData |-> <<>>, wrSts |-> <<>>,
     rdCmd |-> <<>>, rdData |-> <<>>, rdSts |-> <<>>,
     mem |-> [a \in addrs |-> <<>>], buf |-> <<>>, pos |-> 0]

\* S2MM takes one beat of the command at the head of wrCmd; the beat with
\* last set completes the command and needs room for its status.
CanS2mm(d, depth) ==
    /\ d.wrCmd # <<>>
    /\ d.wrData # <<>>
    /\ Head(d.wrData).last => Len(d.wrSts) < depth

S2mm(d) ==
    LET w == Head(d.wrData)
        a == Head(d.wrCmd).addr
    IN  IF w.last
        THEN [d EXCEPT !.wrData = Tail(@), !.wrCmd = Tail(@),
                       !.mem[a] = d.buf \o <<w>>, !.buf = <<>>,
                       !.wrSts = Append(@, "OKAY")]
        ELSE [d EXCEPT !.wrData = Tail(@), !.buf = Append(@, w)]

\* MM2S sends the next stored beat of the command at the head of rdCmd;
\* withSts says whether the port has a read status stream.
CanMm2s(d, depth, withSts) ==
    LET img == d.mem[Head(d.rdCmd).addr] IN
    /\ d.rdCmd # <<>>
    /\ d.pos < Len(img)
    /\ Len(d.rdData) < depth
    /\ (withSts /\ d.pos + 1 = Len(img)) => Len(d.rdSts) < depth

Mm2s(d, withSts) ==
    LET img  == d.mem[Head(d.rdCmd).addr]
        done == d.pos + 1 = Len(img)
    IN  [d EXCEPT !.rdData = Append(@, img[d.pos + 1]),
                  !.pos    = IF done THEN 0 ELSE @ + 1,
                  !.rdCmd  = IF done THEN Tail(@) ELSE @,
                  !.rdSts  = IF done /\ withSts THEN Append(@, "OKAY") ELSE @]

\* The role side of a stream: room for one more element.
NotFull(q, depth) == Len(q) < depth
=============================================================================
