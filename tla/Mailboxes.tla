----------------------------- MODULE Mailboxes ------------------------------
(***************************************************************************)
(* What the message bus promises its users, without the way it keeps it:   *)
(* every pane id owns a mailbox in which messages are numbered 1, 2, 3 ... *)
(* for as long as the pane lives, a prefix of them may have been lost to   *)
(* the caps, a prefix of them has been read, and a group is a set of       *)
(* panes.  MsgBus is shown to implement this specification.                *)
(***************************************************************************)
EXTENDS Naturals

CONSTANTS PaneIds, Groups

VARIABLES
  box,     \* per pane: how many messages were sent to it, lost, read
  member   \* the pairs <<pane, group>> of the membership relation

mailVars == <<box, member>>

Fresh == [sent |-> 0, lost |-> 0, read |-> 0]

MailInit == box = [p \in PaneIds |-> Fresh] /\ member = {}

\* A message takes the next number; older messages may be lost for it, the
\* message itself never is, and reading is not affected.
Send(p) ==
  /\ \E lost \in box[p].lost .. box[p].sent :
       box' = [box EXCEPT ![p] = [sent |-> @.sent + 1, lost |-> lost, read |-> @.read]]
  /\ UNCHANGED member

\* Reading only advances, and never past what was sent.
Read(p) ==
  /\ \E read \in box[p].read .. box[p].sent : box' = [box EXCEPT ![p].read = read]
  /\ UNCHANGED member

Join(p, g) == member' = member \cup {<<p, g>>} /\ UNCHANGED box

Leave(p, g) == member' = member \ {<<p, g>>} /\ UNCHANGED box

\* A closed pane leaves nothing behind, in no mailbox and in no group.
Close(p) ==
  /\ box' = [box EXCEPT ![p] = Fresh]
  /\ member' = member \ ({p} \X Groups)

\* A pane that gets a new id takes its mailbox and its groups along, and
\* finds nothing of an earlier owner of that id.
Rename(old, new) ==
  /\ old # new
  /\ box' = [box EXCEPT ![new] = box[old], ![old] = Fresh]
  /\ member' = (member \ ({old, new} \X Groups))
                 \cup {<<new, g>> : g \in {h \in Groups : <<old, h>> \in member}}

MailNext == \E p \in PaneIds :
  \/ Send(p) \/ Read(p) \/ Close(p)
  \/ \E g \in Groups : Join(p, g) \/ Leave(p, g)
  \/ \E new \in PaneIds : Rename(p, new)

MailSpec == MailInit /\ [][MailNext]_mailVars

=============================================================================
