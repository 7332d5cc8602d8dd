---------------------------- MODULE ListQueues ----------------------------
(***************************************************************************)
(* What the process lists of src/src/lib.c promise to yield, sleep,        *)
(* wake_up, wait and schedule: each list is a sequence, append_list_tail   *)
(* and remove_list_head use it as a queue, and remove_list takes out the   *)
(* first process that waits for the given event.  Each call takes effect   *)
(* in one step.                                                            *)
(***************************************************************************)
EXTENDS Integers, Sequences, SequencesExt

CONSTANTS Core, HeadList, Process, Event,
          NULL,     \* what a call returns that found nothing
          Pending   \* no result yet

VARIABLES content,  \* content[l]: the processes on list l
          wait,     \* wait[p]: the event process p waits for
          result    \* result[c]: what the call of core c has returned

Init ==
  /\ content = [l \in HeadList |-> <<>>]
  /\ result = [c \in Core |-> Pending]

Returns(c, p) == result' = [result EXCEPT ![c] = p]

Begin(c) == Returns(c, Pending) /\ UNCHANGED content

Append_tail(l, p) == content' = [content EXCEPT ![l] = Append(@, p)] /\ UNCHANGED <<wait, result>>

Remove_head(c, l) ==
  /\ content[l] # <<>>
  /\ Returns(c, Head(content[l]))
  /\ content' = [content EXCEPT ![l] = Tail(@)]
  /\ UNCHANGED wait

Remove_first(c, l, w) ==
  LET i == SelectInSeq(content[l], LAMBDA p : wait[p] = w) IN
  /\ i # 0
  /\ Returns(c, content[l][i])
  /\ content' = [content EXCEPT ![l] = RemoveAt(@, i)]
  /\ UNCHANGED wait

Find_none(c, l) == content[l] = <<>> /\ Returns(c, NULL) /\ UNCHANGED <<content, wait>>

Find_no_match(c, l, w) ==
  /\ \A p \in ToSet(content[l]) : wait[p] # w
  /\ Returns(c, NULL)
  /\ UNCHANGED <<content, wait>>

Step ==
  \/ \E c \in Core : Begin(c)
  \/ \E l \in HeadList, p \in Process : Append_tail(l, p)
  \/ \E c \in Core, l \in HeadList : Remove_head(c, l) \/ Find_none(c, l)
  \/ \E c \in Core, l \in HeadList, w \in Event : Remove_first(c, l, w) \/ Find_no_match(c, l, w)

queues == <<content, result>>

Queues == Init /\ [][Step]_queues
=============================================================================
