------------------------------ MODULE Programs ------------------------------
(***************************************************************************)
(* Program skeletons for Processor: instructions that name a channel slot, *)
(* a place in the program, both, or neither.                               *)
(***************************************************************************)
EXTENDS Naturals, Sequences

I(op) == [op |-> op, name |-> "", to |-> 0]
On(op, name) == [op |-> op, name |-> name, to |-> 0]
To(op, to) == [op |-> op, name |-> "", to |-> to]
Arm(name, to) == [op |-> "disable", name |-> name, to |-> to]

(***************************************************************************)
(* A parent creates two channels, starts two workers, receives from both   *)
(* and then recycles a channel of the full heap to talk to one again.      *)
(***************************************************************************)
Workers == <<
  On("chan", "a"), On("chan", "b"), To("start", 13), To("start", 16),
  On("recv", "a"), On("recv", "b"), On("recv", "a"),
  On("del", "a"), On("chan", "a"), On("send", "b"), On("del", "b"), I("halt"),
  On("send", "a"), On("send", "a"), I("halt"),
  On("send", "b"), On("recv", "b"), I("halt") >>

(***************************************************************************)
(* A process that waits in an alternation of two arms for one message, and *)
(* its two senders (programs/alt_two_chan.txt).                            *)
(***************************************************************************)
AlternateOnce == <<
  On("chan", "a"), On("chan", "b"), To("start", 13), To("start", 15),
  I("altstart"), On("enable", "a"), On("enable", "b"), I("altwait"),
  Arm("b", 12), Arm("a", 12), I("altend"), I("halt"),
  On("send", "a"), I("halt"),
  On("send", "b"), I("halt") >>

(***************************************************************************)
(* Either of the two.                                                      *)
(***************************************************************************)
Moved(program, by) ==
  [i \in DOMAIN program |->
     [program[i] EXCEPT !.to = IF @ = 0 THEN 0 ELSE @ + by]]
WorkersOrAlternation ==
  <<To("branch", Len(Workers) + 2)>>
    \o Moved(Workers, 1) \o Moved(AlternateOnce, Len(Workers) + 1)

(***************************************************************************)
(* An alternation of one arm in a process that shares its cores with two   *)
(* processes that communicate on another channel.                          *)
(***************************************************************************)
AlternateBeside == <<
  On("chan", "a"), On("chan", "b"), To("start", 13), To("start", 16),
  To("start", 19),
  I("altstart"), On("enable", "a"), I("altwait"), Arm("a", 12), I("altend"),
  I("halt"), I("halt"),
  On("recv", "b"), On("recv", "b"), I("halt"),
  On("send", "b"), On("send", "b"), I("halt"),
  On("send", "a"), I("halt") >>

(***************************************************************************)
(* The program of the test alternation_very_long: an alternation takes one *)
(* of two values, and the arm receives the other.                          *)
(***************************************************************************)
AlternateThenReceive == <<
  On("chan", "a"), On("chan", "b"), To("start", 18), To("start", 20),
  I("altstart"), On("enable", "b"), On("enable", "a"), I("altwait"),
  Arm("b", 12), Arm("a", 14), I("altend"),
  On("recv", "a"), To("jump", 15), On("recv", "b"),
  On("del", "a"), On("del", "b"), I("halt"),
  On("send", "b"), I("halt"),
  On("send", "a"), I("halt") >>

(***************************************************************************)
(* One process that runs out of processes or channels, disables an arm and *)
(* ends an alternation that it never began, and goes on using a channel    *)
(* after it deleted it; its children never end.                            *)
(***************************************************************************)
Exhaust == <<
  On("chan", "a"), To("branch", 5), To("start", 16), To("jump", 2),
  On("chan", "b"), To("branch", 8), On("chan", "c"),
  Arm("b", 10), I("altend"),
  On("del", "a"), On("del", "b"), To("branch", 14),
  On("send", "b"), On("recv", "b"), I("halt"),
  I("yield"), I("halt") >>
==============================================================================
