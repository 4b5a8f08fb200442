---------------------------- MODULE GrantProofs ----------------------------
(***************************************************************************)
(* Who can gain what, for any server, any number of channels, categories,  *)
(* roles and members and any number of requests in flight: a channel that  *)
(* leaves its category keeps everybody's permissions, nobody hands out a   *)
(* channel permission that it does not have, what a member writes about    *)
(* roles leaves its seniors alone, and what a tab lets be done to a member *)
(* rests on a list that is current (MemberContext).                        *)
(***************************************************************************)
EXTENDS ChannelAccess, Roles, MemberContext, FiniteSetTheorems, SequenceTheorems, TLAPS

------------------------------------------------------------
(* Permissions                                                             *)

\* A bit that no row newly allows and no row stops denying is gained by nobody.
LEMMA ResolutionIsMonotone ==
    ASSUME NEW sv, NEW current, NEW next, NEW u, NEW bit,
           \A t \in {sv.everyone, u} \cup sv.assigned[u] :
               /\ bit \in next[t].allow => bit \in current[t].allow
               /\ bit \in current[t].deny => bit \in next[t].deny,
           bit \in ChannelPermissions(sv, next, u)
    PROVE  bit \in ChannelPermissions(sv, current, u)
<1> DEFINE base == ServerPermissions(sv, u)
           E(rows) == ApplyOverwrite(base, rows[sv.everyone])
           R(rows) == ApplyRoles(E(rows), rows, sv.assigned[u])
<1>1. CASE ~CanAccessServer(sv, u) \/ IsOwner(sv, u) \/ "ADMINISTRATOR" \in base BY <1>1 DEF ChannelPermissions
<1>2. CASE ~(~CanAccessServer(sv, u) \/ IsOwner(sv, u) \/ "ADMINISTRATOR" \in base)
 <2>1. \A rows : ChannelPermissions(sv, rows, u) = ApplyOverwrite(R(rows), rows[u])
   BY <1>2 DEF ChannelPermissions
 <2>2. bit \in E(next) => bit \in E(current) BY DEF ApplyOverwrite
 <2>3. bit \in R(next) => bit \in R(current)
  <3> HIDE DEF E
  <3> QED BY <2>2 DEF ApplyRoles
 <2>4. bit \in ApplyOverwrite(R(next), next[u]) => bit \in ApplyOverwrite(R(current), current[u])
  <3> HIDE DEF R
  <3> QED BY <2>3 DEF ApplyOverwrite
 <2> QED BY <2>1, <2>4
<1> QED BY <1>1, <1>2

\* Whoever may grant bits has them, the owner too.
LEMMA GranterHasBits ==
    ASSUME NEW sv, NEW a, NEW bits, CanGrantPermissions(sv, a, bits)
    PROVE  bits \subseteq ServerPermissions(sv, a)
BY DEF CanGrantPermissions, ServerPermissions

\* What a member of the server gains when its channel is governed by `next`
\* instead of `current` are bits that the change of some row may grant.
LEMMA GainsAreGranted ==
    ASSUME NEW current, NEW next, NEW G, NEW u \in ServerTables.members,
           \A t \in AllTargets : PotentiallyGrantedBits(current[t], next[t]) \subseteq G
    PROVE  ChannelPermissions(ServerTables, next, u)
               \ ChannelPermissions(ServerTables, current, u) \subseteq G
<1> SUFFICES ASSUME NEW bit, bit \notin G, bit \in ChannelPermissions(ServerTables, next, u)
             PROVE  bit \in ChannelPermissions(ServerTables, current, u)
  OBVIOUS
<1>1. {ServerTables.everyone, u} \cup ServerTables.assigned[u] \subseteq AllTargets
  BY ChannelAccessAssumption DEF AllTargets
<1>2. \A t \in AllTargets : /\ bit \in next[t].allow => bit \in current[t].allow
                            /\ bit \in current[t].deny => bit \in next[t].deny
  BY DEF PotentiallyGrantedBits
<1> QED BY <1>1, <1>2, ResolutionIsMonotone

\* A change of source that the service accepts grants nothing its caller lacks.
LEMMA SourceChangeIsGranted ==
    ASSUME NEW a, NEW current, NEW next, CanChangeSource(a, current, next)
    PROVE  \A t \in AllTargets :
               PotentiallyGrantedBits(current[t], next[t]) \subseteq ServerPermissions(ServerTables, a)
<1> DEFINE changed == {t \in AllTargets : current[t] # next[t]}
<1>1. UNION {PotentiallyGrantedBits(current[t], next[t]) : t \in changed}
          \subseteq ServerPermissions(ServerTables, a)
  BY GranterHasBits DEF CanChangeSource
<1>2. \A t \in AllTargets \ changed : PotentiallyGrantedBits(current[t], next[t]) = {}
  BY DEF PotentiallyGrantedBits
<1> QED BY <1>1, <1>2

------------------------------------------------------------
(* Channels                                                                *)

\* What a request that is under way read, and what it was allowed on it.
GoodRead(q, r) ==
    /\ r.op \in {"move", "sync", "unsync"} => r.place \in Channel
    /\ r.op = "move" => RowAllowed(r.row)
    /\ r.op = "sync" => ~r.row.permissionsSynced /\ r.row.category # NoCategory
    /\ r.op = "unsync" => r.row.permissionsSynced /\ r.row.category # NoCategory
    /\ r.op \in {"upsert", "remove"} =>
           /\ r.place \in Place /\ r.target \in Target
           /\ PotentiallyGrantedBits(r.was, r.masks)
                  \subseteq ServerPermissions(ServerTables, ActorOf[q])

\* No row is synced without a category, and one that is gone is empty.
RowsAreSound ==
    \A c \in Channel :
        /\ RowAllowed(channelRow[c])
        /\ ~channelRow[c].live => channelRow[c] = NoChannelRow

ChannelIInv ==
    /\ ChannelTypeOK
    /\ RowsAreSound
    /\ \A q \in ChannelReq : GoodRead(q, channelReq[q])

\* Request q starts, with a reading that is good.
Starting(q) ==
    \E r \in ChannelRequest : GoodRead(q, r) /\ Free(q) /\ Begin(q, r) /\ r.op # "none"

\* A request that has ended has read nothing.
LEMMA NoChannelRequestType ==
    /\ NoChannelRow \in ChannelRow
    /\ NoChannelRequest \in ChannelRequest
    /\ \A q : GoodRead(q, NoChannelRequest)
<1>1. NoChannelRow \in ChannelRow BY DEF NoChannelRow, ChannelRow
<1>2. NoChannelRequest \in ChannelRequest BY <1>1 DEF NoChannelRequest, ChannelRequest
<1>3. \A q : GoodRead(q, NoChannelRequest) BY DEF GoodRead, NoChannelRequest
<1> QED BY <1>1, <1>2, <1>3

\* The initial state satisfies the inductive invariant.
LEMMA ChannelInitIInv == ChannelInit => ChannelIInv
<1> SUFFICES ASSUME ChannelInit PROVE ChannelIInv OBVIOUS
<1>1. ChannelTypeOK
  BY NoChannelRequestType, ChannelAccessAssumption
  DEF ChannelInit, ChannelTypeOK, NoOverwrites, Place
<1>2. RowsAreSound BY DEF ChannelInit, RowsAreSound, RowAllowed, NoChannelRow
<1>3. \A q \in ChannelReq : GoodRead(q, channelReq[q]) BY NoChannelRequestType DEF ChannelInit
<1> QED BY <1>1, <1>2, <1>3 DEF ChannelIInv

\* An edit of an overwrite that starts: what it is, and what it was allowed.
LEMMA EditGoodRead ==
    ASSUME ChannelIInv, NEW q \in ChannelReq, NEW p \in Place, NEW t \in Target,
           NEW op \in {"upsert", "remove"}, NEW masks \in Masks \cup {NoMasks},
           EditOverwrite(q, p, t, op, masks)
    PROVE  Starting(q)
<1> USE DEF ChannelIInv, ChannelTypeOK
<1> DEFINE r == [NoChannelRequest EXCEPT !.op = op, !.place = p, !.target = t,
                                         !.masks = masks, !.was = overwriteRows[p][t]]
<1>1. t \in AllTargets BY ChannelAccessAssumption
<1>2. overwriteRows[p][t] \in Masks \cup {NoMasks} BY <1>1
<1>3. r \in ChannelRequest BY <1>2, NoChannelRequestType DEF ChannelRequest
<1>4. r.op = op /\ r.place = p /\ r.target = t /\ r.masks = masks /\ r.was = overwriteRows[p][t]
  BY DEF NoChannelRequest
<1>5. /\ Free(q) /\ Begin(q, r)
      /\ CanGrantPermissions(ServerTables, ActorOf[q], PotentiallyGrantedBits(r.was, r.masks))
  BY <1>4 DEF EditOverwrite
<1>6. GoodRead(q, r) BY <1>4, <1>5, GranterHasBits DEF GoodRead
<1> QED BY <1>3, <1>4, <1>5, <1>6 DEF Starting

\* The same for a move, a sync and an unsync.
LEMMA SourceChangeGoodRead ==
    ASSUME ChannelIInv, NEW q \in ChannelReq, NEW c \in Channel,
           NEW to \in Category \cup {NoCategory}, NEW op \in {"sync", "unsync"},
           StartMove(q, c, to) \/ StartSync(q, c, op)
    PROVE  Starting(q)
<1> USE DEF ChannelIInv, ChannelTypeOK
<1>1. ASSUME StartMove(q, c, to)
      PROVE  Starting(q)
 <2> DEFINE r == [NoChannelRequest EXCEPT !.op = "move", !.place = c, !.to = to,
                                          !.row = channelRow[c]]
 <2>1. r \in ChannelRequest BY NoChannelRequestType DEF ChannelRequest, Place
 <2>2. r.op = "move" /\ r.place = c /\ r.row = channelRow[c] BY DEF NoChannelRequest
 <2>3. Free(q) /\ Begin(q, r) BY <1>1 DEF StartMove
 <2>4. GoodRead(q, r) BY <2>2 DEF GoodRead, RowsAreSound
 <2> QED BY <2>1, <2>2, <2>3, <2>4 DEF Starting
<1>2. ASSUME StartSync(q, c, op)
      PROVE  Starting(q)
 <2> DEFINE r == [NoChannelRequest EXCEPT !.op = op, !.place = c, !.row = channelRow[c]]
 <2>1. r \in ChannelRequest BY NoChannelRequestType DEF ChannelRequest, Place
 <2>2. r.op = op /\ r.place = c /\ r.row = channelRow[c] BY DEF NoChannelRequest
 <2>3. /\ Free(q) /\ Begin(q, r) /\ channelRow[c].category # NoCategory
       /\ channelRow[c].permissionsSynced = (op = "unsync")
   BY <1>2 DEF StartSync
 <2>4. GoodRead(q, r) BY <2>2, <2>3 DEF GoodRead
 <2> QED BY <2>1, <2>2, <2>3, <2>4 DEF Starting
<1> QED BY <1>1, <1>2

\* What a step does to the requests: nothing, or it starts or ends one.
LEMMA ChannelStepOnRequests ==
    ASSUME ChannelIInv, ChannelNext
    PROVE  \/ channelReq' = channelReq
           \/ \E q \in ChannelReq : Starting(q)
           \/ \E q \in ChannelReq : ~Free(q) /\ Finish(q)
<1>1. ASSUME NEW a \in Actor, NEW c \in Channel,
             \/ \E k \in Category \cup {NoCategory}, private \in BOOLEAN :
                    CreateChannel(a, c, k, private)
             \/ DeleteChannel(a, c)
      PROVE  channelReq' = channelReq
  BY <1>1 DEF CreateChannel, DeleteChannel
<1>2. ASSUME NEW a \in Actor, NEW k \in Category, CreateCategory(a, k) \/ DeleteCategory(a, k)
      PROVE  channelReq' = channelReq
  BY <1>2 DEF CreateCategory, DeleteCategory
<1>3. ASSUME NEW q \in ChannelReq, NEW p \in Place, NEW t \in Target,
             \/ \E masks \in Masks : EditOverwrite(q, p, t, "upsert", masks)
             \/ EditOverwrite(q, p, t, "remove", NoMasks)
      PROVE  Starting(q)
  BY <1>3, EditGoodRead
<1>4. ASSUME NEW q \in ChannelReq, NEW c \in Channel,
             \/ \E to \in Category \cup {NoCategory} : StartMove(q, c, to)
             \/ \E op \in {"sync", "unsync"} : StartSync(q, c, op)
      PROVE  Starting(q)
 <2>1. CASE \E to \in Category \cup {NoCategory} : StartMove(q, c, to) BY <2>1, SourceChangeGoodRead
 <2>2. CASE \E op \in {"sync", "unsync"} : StartSync(q, c, op) BY <2>2, SourceChangeGoodRead
 <2> QED BY <1>4, <2>1, <2>2
<1>5. ASSUME NEW q \in ChannelReq,
             WriteOverwrite(q) \/ CommitMove(q) \/ CommitSync(q) \/ CommitUnsync(q) \/ CommitFails(q)
      PROVE  ~Free(q) /\ Finish(q)
  BY <1>5 DEF WriteOverwrite, CommitMove, CommitSync, CommitUnsync, CommitFails, Free
<1> QED BY <1>1, <1>2, <1>3, <1>4, <1>5 DEF ChannelNext

\* Every step keeps the requests well typed and their readings good.
LEMMA StepGoodReads ==
    ASSUME ChannelIInv, ChannelNext
    PROVE  channelReq' \in [ChannelReq -> ChannelRequest] /\ \A q \in ChannelReq : GoodRead(q, channelReq'[q])
<1> USE DEF ChannelIInv, ChannelTypeOK
<1>1. CASE channelReq' = channelReq BY <1>1
<1>2. ASSUME NEW q \in ChannelReq, Starting(q)
      PROVE  channelReq' \in [ChannelReq -> ChannelRequest] /\ \A p \in ChannelReq : GoodRead(p, channelReq'[p])
  BY <1>2 DEF Starting, Begin
<1>3. ASSUME NEW q \in ChannelReq, Finish(q)
      PROVE  channelReq' \in [ChannelReq -> ChannelRequest] /\ \A p \in ChannelReq : GoodRead(p, channelReq'[p])
  BY <1>3, NoChannelRequestType DEF Finish
<1> QED BY <1>1, <1>2, <1>3, ChannelStepOnRequests

\* Every step keeps the tables well typed and the rows sound.
LEMMA StepSoundRows ==
    ASSUME ChannelIInv, ChannelNext
    PROVE  /\ channelRow' \in [Channel -> ChannelRow]
           /\ categories' \subseteq Category
           /\ overwriteRows' \in [Place -> [AllTargets -> Masks \cup {NoMasks}]]
           /\ RowsAreSound'
<1> DEFINE P == /\ channelRow' \in [Channel -> ChannelRow]
                /\ categories' \subseteq Category
                /\ overwriteRows' \in [Place -> [AllTargets -> Masks \cup {NoMasks}]]
                /\ RowsAreSound'
<1> USE DEF ChannelIInv, ChannelTypeOK
<1>0. NoOverwrites \in [AllTargets -> Masks \cup {NoMasks}] BY DEF NoOverwrites
<1>1. ASSUME NEW q \in ChannelReq, Starting(q)
      PROVE  P
  BY <1>1 DEF Starting, Begin, RowsAreSound
<1>2. ASSUME NEW a \in Actor, NEW c \in Channel, NEW k \in Category \cup {NoCategory},
             NEW private \in BOOLEAN, CreateChannel(a, c, k, private)
      PROVE  P
 <2> DEFINE row == [live |-> TRUE, category |-> k, permissionsSynced |-> ~private /\ k # NoCategory]
            rows == IF private THEN [NoOverwrites EXCEPT ![ServerTables.everyone] = PrivateMasks]
                    ELSE NoOverwrites
 <2>1. row \in ChannelRow /\ RowAllowed(row) /\ row.live BY DEF ChannelRow, RowAllowed
 <2>2. channelRow' = [channelRow EXCEPT ![c] = row] /\ overwriteRows' = [overwriteRows EXCEPT ![c] = rows]
       /\ categories' = categories
   BY <1>2 DEF CreateChannel
 <2>3. rows \in [AllTargets -> Masks \cup {NoMasks}]
   BY <1>0, ChannelAccessAssumption DEF PrivateMasks, AllTargets
 <2> HIDE DEF row, rows
 <2> QED BY <2>1, <2>2, <2>3 DEF RowsAreSound
<1>3. ASSUME NEW a \in Actor, NEW c \in Channel, DeleteChannel(a, c)
      PROVE  P
 <2>1. NoChannelRow \in ChannelRow /\ RowAllowed(NoChannelRow)
   BY NoChannelRequestType DEF RowAllowed, NoChannelRow
 <2> QED BY <1>0, <1>3, <2>1 DEF DeleteChannel, RowsAreSound
<1>4. ASSUME NEW a \in Actor, NEW k \in Category, CreateCategory(a, k)
      PROVE  P
  BY <1>4 DEF CreateCategory, RowsAreSound
<1>5. ASSUME NEW a \in Actor, NEW k \in Category, DeleteCategory(a, k)
      PROVE  P
 <2> DEFINE left(row) == [row EXCEPT !.category = NoCategory, !.permissionsSynced = FALSE]
 <2>1. \A row \in ChannelRow : left(row) \in ChannelRow /\ RowAllowed(left(row)) /\ left(row).live = row.live
   BY DEF RowAllowed, ChannelRow
 <2>2. \A c \in Channel : channelRow'[c] = channelRow[c] \/ (channelRow'[c] = left(channelRow[c])
                                                               /\ channelRow[c].category = k)
   BY <1>5 DEF DeleteCategory
 <2>3. channelRow' \in [Channel -> ChannelRow]
  <3>1. channelRow' = [c \in Channel |-> channelRow'[c]] BY <1>5 DEF DeleteCategory
  <3> HIDE DEF left
  <3> QED BY <2>1, <2>2, <3>1
 <2>4. overwriteRows' \in [Place -> [AllTargets -> Masks \cup {NoMasks}]]
   BY <1>0, <1>5 DEF DeleteCategory, Place
 <2>5. k # NoCategory /\ NoChannelRow.category = NoCategory BY ChannelAccessAssumption DEF NoChannelRow
 <2>6. RowsAreSound'
  <3> SUFFICES ASSUME NEW c \in Channel
               PROVE  RowAllowed(channelRow'[c]) /\ (~channelRow'[c].live => channelRow'[c] = NoChannelRow)
    BY DEF RowsAreSound, RowAllowed
  <3> HIDE DEF left
  <3> QED BY <2>1, <2>2, <2>5 DEF RowsAreSound
 <2> QED BY <1>5, <2>3, <2>4, <2>6 DEF DeleteCategory
<1>6. ASSUME NEW q \in ChannelReq, WriteOverwrite(q)
      PROVE  P
 <2>1. channelReq[q] \in ChannelRequest /\ GoodRead(q, channelReq[q]) OBVIOUS
 <2>2. channelReq[q].place \in Place /\ channelReq[q].target \in AllTargets
   BY <1>6, <2>1, ChannelAccessAssumption DEF WriteOverwrite, GoodRead
 <2>3. channelReq[q].masks \in Masks \cup {NoMasks} BY <2>1 DEF ChannelRequest
 <2> QED BY <1>6, <2>2, <2>3 DEF WriteOverwrite, RowsAreSound
<1>7. ASSUME NEW q \in ChannelReq, CommitMove(q) \/ CommitSync(q) \/ CommitUnsync(q)
      PROVE  P
 <2> DEFINE r == channelReq[q]
            c == r.place
 <2>1. r \in ChannelRequest /\ c \in Channel /\ r.row \in ChannelRow /\ GoodRead(q, r) /\ channelRow[c].live
   BY <1>7 DEF CommitMove, CommitSync, CommitUnsync, GoodRead, ChannelRequest
 <2> HIDE DEF r
 <2>2. \E row \in ChannelRow : row.live /\ RowAllowed(row) /\ channelRow' = [channelRow EXCEPT ![c] = row]
  <3>1. CASE CommitMove(q)
   <4> DEFINE row == [channelRow[c] EXCEPT !.category = r.to,
                          !.permissionsSynced = r.to # NoCategory /\ r.row.permissionsSynced]
   <4>1. r.to \in Category \cup {NoCategory} BY <2>1 DEF ChannelRequest
   <4>2. row \in ChannelRow /\ row.live /\ RowAllowed(row) BY <2>1, <4>1 DEF ChannelRow, RowAllowed
   <4>3. channelRow' = [channelRow EXCEPT ![c] = row] BY <3>1, <2>1 DEF CommitMove, r
   <4> QED BY <4>2, <4>3
  <3>2. CASE CommitSync(q)
   <4> DEFINE row == [channelRow[c] EXCEPT !.permissionsSynced = TRUE]
   <4>1. row \in ChannelRow /\ row.live BY <2>1 DEF ChannelRow
   <4>2. channelRow' = [channelRow EXCEPT ![c] = row] /\ RowAllowed(row) BY <3>2, <2>1 DEF CommitSync, r
   <4> QED BY <4>1, <4>2
  <3>3. CASE CommitUnsync(q)
   <4> DEFINE row == [channelRow[c] EXCEPT !.permissionsSynced = FALSE]
   <4>1. row \in ChannelRow /\ row.live /\ RowAllowed(row) BY <2>1 DEF ChannelRow, RowAllowed
   <4>2. channelRow' = [channelRow EXCEPT ![c] = row] BY <3>3, <2>1 DEF CommitUnsync, r
   <4> QED BY <4>1, <4>2
  <3> QED BY <1>7, <3>1, <3>2, <3>3
 <2>3. channelRow' \in [Channel -> ChannelRow] /\ RowsAreSound' BY <2>1, <2>2 DEF RowsAreSound
 <2>4. categories' = categories BY <1>7 DEF CommitMove, CommitSync, CommitUnsync
 <2>5. overwriteRows' \in [Place -> [AllTargets -> Masks \cup {NoMasks}]]
  <3>1. CASE CommitMove(q)
   <4>1. LeavesSource(r.row, r.to) => r.row.category \in Category
     BY <2>1 DEF LeavesSource, CategoryIsSource, ChannelRow
   <4> QED BY <2>1, <3>1, <4>1 DEF CommitMove, Copied, r, Place
  <3>2. CASE CommitSync(q) BY <1>0, <2>1, <3>2 DEF CommitSync, r, Place
  <3>3. CASE CommitUnsync(q)
   <4>1. r.row.category \in Category BY <2>1, <3>3 DEF CommitUnsync, GoodRead, r, ChannelRow
   <4> QED BY <2>1, <3>3, <4>1 DEF CommitUnsync, Copied, r, Place
  <3> QED BY <1>7, <3>1, <3>2, <3>3
 <2> QED BY <2>3, <2>4, <2>5
<1>8. ASSUME NEW q \in ChannelReq, CommitFails(q)
      PROVE  P
  BY <1>8 DEF CommitFails, RowsAreSound
<1> HIDE DEF P
<1>9. ASSUME NEW q \in ChannelReq, NEW p \in Place, NEW t \in Target,
             \/ \E masks \in Masks : EditOverwrite(q, p, t, "upsert", masks)
             \/ EditOverwrite(q, p, t, "remove", NoMasks)
      PROVE  P
  BY <1>9, <1>1, EditGoodRead
<1>10. ASSUME NEW q \in ChannelReq, NEW c \in Channel,
             \/ \E to \in Category \cup {NoCategory} : StartMove(q, c, to)
             \/ \E op \in {"sync", "unsync"} : StartSync(q, c, op)
      PROVE  P
 <2>1. CASE \E to \in Category \cup {NoCategory} : StartMove(q, c, to) BY <1>1, <2>1, SourceChangeGoodRead
 <2>2. CASE \E op \in {"sync", "unsync"} : StartSync(q, c, op) BY <1>1, <2>2, SourceChangeGoodRead
 <2> QED BY <1>10, <2>1, <2>2
<1>11. P BY <1>2, <1>3, <1>4, <1>5, <1>6, <1>7, <1>8, <1>9, <1>10 DEF ChannelNext
<1> QED BY <1>11 DEF P

\* Every step preserves the inductive invariant.
LEMMA StepChannelIInv == ChannelIInv /\ [ChannelNext]_channelVars => ChannelIInv'
<1>1. ASSUME ChannelIInv, ChannelNext
      PROVE  ChannelIInv'
  BY <1>1, StepGoodReads, StepSoundRows DEF ChannelIInv, ChannelTypeOK, GoodRead
<1>2. ASSUME ChannelIInv, UNCHANGED channelVars
      PROVE  ChannelIInv'
  BY <1>2 DEF ChannelIInv, ChannelTypeOK, GoodRead, RowsAreSound, RowAllowed, channelVars
<1> QED BY <1>1, <1>2

\* A channel whose row a step does not change, and whose overwrites of its source
\* it does not change either, resolves as before.
LEMMA SameSourceSameAccess ==
    ASSUME NEW c, channelRow'[c] = channelRow[c],
           overwriteRows'[OverwriteSource(c)] = overwriteRows[OverwriteSource(c)]
    PROVE  \A u : Effective(c, u)' = Effective(c, u)
<1>1. OverwriteSource(c)' = OverwriteSource(c) BY DEF OverwriteSource, CategoryIsSource
<1> QED BY <1>1 DEF Effective

\* The same for a channel whose source changes to one with the same overwrites.
LEMMA SameRowsSameAccess ==
    ASSUME NEW c, overwriteRows'[OverwriteSource(c)'] = overwriteRows[OverwriteSource(c)]
    PROVE  \A u : Effective(c, u)' = Effective(c, u)
BY DEF Effective

\* A commit by a request whose reading is up to date: what the channel's source
\* was, and what it is.
LEMMA CommitSources ==
    ASSUME ChannelIInv, NEW q \in ChannelReq, UpToDate(q),
           CommitMove(q) \/ CommitSync(q) \/ CommitUnsync(q),
           NEW c \in Channel
    PROVE  \/ \A u : Effective(c, u)' = Effective(c, u)
           \/ /\ CategoryIsSource(channelRow'[c])
              /\ CanChangeSource(ActorOf[q], overwriteRows[OverwriteSource(c)],
                                 overwriteRows'[OverwriteSource(c)'])
<1> DEFINE r == channelReq[q]
<1> USE DEF ChannelIInv, ChannelTypeOK
<1>1. /\ r \in ChannelRequest /\ r.place \in Channel /\ GoodRead(q, r) /\ r.row = channelRow[r.place]
      /\ r.row \in ChannelRow /\ RowAllowed(r.row)
  BY DEF CommitMove, CommitSync, CommitUnsync, GoodRead, UpToDate, RowsAreSound
<1> HIDE DEF r
<1>2. \A k \in Category : k # r.place /\ k # c BY <1>1, ChannelAccessAssumption
<1>3. /\ \A d \in Channel : d # r.place => channelRow'[d] = channelRow[d]
      /\ \A p \in Place : p # r.place => overwriteRows'[p] = overwriteRows[p]
  BY <1>1 DEF CommitMove, CommitSync, CommitUnsync, r
<1>4. CASE c # r.place
 <2>1. OverwriteSource(c) \in Place /\ OverwriteSource(c) # r.place
   BY <1>1, <1>2, <1>4 DEF OverwriteSource, CategoryIsSource, Place, ChannelRow
 <2> QED BY <1>3, <1>4, <2>1, SameSourceSameAccess
<1>5. CASE c = r.place
 <2>1. CASE CommitMove(q)
  <3> DEFINE row == channelRow'[c]
  <3>1. /\ row.category = r.to /\ row.permissionsSynced = (r.to # NoCategory /\ r.row.permissionsSynced)
        /\ r.to \in Category \cup {NoCategory}
    BY <1>1, <1>5, <2>1 DEF CommitMove, r, ChannelRow, ChannelRequest
  <3> HIDE DEF row
  <3>2. CASE LeavesSource(r.row, r.to) /\ r.to = NoCategory
   <4>1. OverwriteSource(c) = r.row.category BY <1>1, <1>5, <3>2 DEF OverwriteSource, LeavesSource
   <4>2. OverwriteSource(c)' = c BY <3>1, <3>2 DEF OverwriteSource, CategoryIsSource, row
   <4>3. overwriteRows'[c] = overwriteRows[r.row.category] BY <1>5, <2>1, <3>2 DEF CommitMove, Copied, r, Place
   <4> QED BY <4>1, <4>2, <4>3, SameRowsSameAccess
  <3>3. CASE LeavesSource(r.row, r.to) /\ r.to # NoCategory
   <4>1. OverwriteSource(c) = r.row.category BY <1>1, <1>5, <3>3 DEF OverwriteSource, LeavesSource
   <4>2. OverwriteSource(c)' = r.to /\ CategoryIsSource(row)
     BY <3>1, <3>3 DEF OverwriteSource, CategoryIsSource, LeavesSource, row
   <4>3. overwriteRows'[r.to] = overwriteRows[r.to] BY <1>2, <1>3, <3>1, <3>3 DEF Place
   <4>4. CanChangeSource(ActorOf[q], overwriteRows[r.row.category], overwriteRows[r.to])
     BY <2>1, <3>3 DEF CommitMove, r
   <4> QED BY <4>1, <4>2, <4>3, <4>4 DEF row
  <3>4. CASE ~LeavesSource(r.row, r.to)
   <4>1. overwriteRows' = overwriteRows BY <2>1, <3>4 DEF CommitMove, r
   <4>2. OverwriteSource(c)' = OverwriteSource(c)
     BY <1>1, <1>5, <3>1, <3>4 DEF OverwriteSource, CategoryIsSource, LeavesSource, RowAllowed, row
   <4> QED BY <4>1, <4>2, SameRowsSameAccess
  <3> QED BY <3>2, <3>3, <3>4
 <2>2. CASE CommitSync(q)
  <3>1. ~r.row.permissionsSynced /\ r.row.category \in Category /\ r.row.category # NoCategory
    BY <1>1, <2>2 DEF CommitSync, GoodRead, r, ChannelRow
  <3>2. channelRow'[c].category = r.row.category /\ channelRow'[c].permissionsSynced
    BY <1>1, <1>5, <2>2 DEF CommitSync, r, ChannelRow
  <3>3. OverwriteSource(c) = c /\ OverwriteSource(c)' = r.row.category /\ CategoryIsSource(channelRow'[c])
    BY <1>1, <1>5, <3>1, <3>2 DEF OverwriteSource, CategoryIsSource
  <3>4. overwriteRows'[r.row.category] = overwriteRows[r.row.category] BY <1>2, <1>3, <3>1 DEF Place
  <3>5. CanChangeSource(ActorOf[q], overwriteRows[c], overwriteRows[r.row.category])
    BY <1>5, <2>2 DEF CommitSync, r
  <3> QED BY <3>3, <3>4, <3>5
 <2>3. CASE CommitUnsync(q)
  <3>1. r.row.permissionsSynced /\ r.row.category # NoCategory BY <1>1, <2>3 DEF CommitUnsync, GoodRead, r
  <3>2. ~channelRow'[c].permissionsSynced BY <1>1, <1>5, <2>3 DEF CommitUnsync, r, ChannelRow
  <3>3. OverwriteSource(c) = r.row.category /\ OverwriteSource(c)' = c
    BY <1>1, <1>5, <3>1, <3>2 DEF OverwriteSource, CategoryIsSource
  <3>4. overwriteRows'[c] = overwriteRows[r.row.category] BY <1>5, <2>3 DEF CommitUnsync, Copied, r, Place
  <3> QED BY <3>3, <3>4, SameRowsSameAccess
 <2> QED BY <2>1, <2>2, <2>3
<1> QED BY <1>4, <1>5

\* An edited overwrite grants what its request was checked for, and nothing else.
LEMMA EditGains ==
    ASSUME ChannelIInv, NEW q \in ChannelReq, UpToDate(q), WriteOverwrite(q),
           NEW c \in Channel, NEW u \in ServerTables.members
    PROVE  Effective(c, u)' \ Effective(c, u) \subseteq ServerPermissions(ServerTables, ActorOf[q])
<1> DEFINE r == channelReq[q]
           s == OverwriteSource(c)
           G == ServerPermissions(ServerTables, ActorOf[q])
<1> USE DEF ChannelIInv, ChannelTypeOK
<1>1. /\ r.place \in Place /\ r.target \in AllTargets /\ r.was = overwriteRows[r.place][r.target]
      /\ PotentiallyGrantedBits(r.was, r.masks) \subseteq G
  BY ChannelAccessAssumption DEF WriteOverwrite, GoodRead, UpToDate
<1>2. s \in Place BY DEF OverwriteSource, CategoryIsSource, Place, ChannelRow
<1>3. \A t \in AllTargets :
          overwriteRows'[s][t] = overwriteRows[s][t]
          \/ (s = r.place /\ t = r.target /\ overwriteRows'[s][t] = r.masks)
  BY <1>1, <1>2 DEF WriteOverwrite
<1> HIDE DEF r, s
<1>4. \A t \in AllTargets : PotentiallyGrantedBits(overwriteRows[s][t], overwriteRows'[s][t]) \subseteq G
  BY <1>1, <1>3 DEF PotentiallyGrantedBits
<1>5. Effective(c, u) = ChannelPermissions(ServerTables, overwriteRows[s], u) BY DEF Effective, s
<1>6. Effective(c, u)' = ChannelPermissions(ServerTables, overwriteRows'[s], u)
  BY DEF Effective, s, OverwriteSource, CategoryIsSource, WriteOverwrite
<1> QED BY <1>4, <1>5, <1>6, GainsAreGranted

\* Only these end a request.
LEMMA EndingSteps ==
    ASSUME ChannelIInv, ChannelNext, NEW q \in ChannelReq, Ends(q)
    PROVE  WriteOverwrite(q) \/ CommitMove(q) \/ CommitSync(q) \/ CommitUnsync(q) \/ CommitFails(q)
<1> DEFINE D(p) == WriteOverwrite(p) \/ CommitMove(p) \/ CommitSync(p) \/ CommitUnsync(p) \/ CommitFails(p)
<1>1. ~(channelReq' = channelReq) BY DEF Ends
<1>2. ~(\E p \in ChannelReq : Starting(p))
 <2> SUFFICES ASSUME NEW p \in ChannelReq, Starting(p)
              PROVE  FALSE
   OBVIOUS
 <2>1. channelReq'[q].op # "none" BY DEF Starting, Begin, Free, Ends, ChannelIInv, ChannelTypeOK
 <2> QED BY <2>1 DEF Ends
<1>3. \E p \in ChannelReq : D(p)
 <2>1. \A a \in Actor, c \in Channel, k \in Category \cup {NoCategory}, private \in BOOLEAN :
           ~CreateChannel(a, c, k, private) /\ ~DeleteChannel(a, c)
   BY <1>1 DEF CreateChannel, DeleteChannel
 <2>2. \A a \in Actor, k \in Category : ~CreateCategory(a, k) /\ ~DeleteCategory(a, k)
   BY <1>1 DEF CreateCategory, DeleteCategory
 <2>3. \A p \in ChannelReq, l \in Place, t \in Target, op \in {"upsert", "remove"}, masks \in Masks \cup {NoMasks} :
           ~EditOverwrite(p, l, t, op, masks)
   BY <1>2, EditGoodRead
 <2>4. \A p \in ChannelReq, c \in Channel, to \in Category \cup {NoCategory}, op \in {"sync", "unsync"} :
           ~StartMove(p, c, to) /\ ~StartSync(p, c, op)
   BY <1>2, SourceChangeGoodRead
 <2> HIDE DEF D
 <2> QED BY <2>1, <2>2, <2>3, <2>4 DEF ChannelNext, D
<1>4. PICK p \in ChannelReq : D(p) BY <1>3
<1>5. Finish(p) BY <1>4 DEF WriteOverwrite, CommitMove, CommitSync, CommitUnsync, CommitFails
<1>6. p = q BY <1>5 DEF Finish, Ends, ChannelIInv, ChannelTypeOK
<1> QED BY <1>4, <1>6

\* A step of a request that reads what still is so grants nobody a bit that its
\* caller lacks.
LEMMA StepGrantCeiling ==
    ASSUME ChannelIInv, ChannelNext, NEW q \in ChannelReq, NEW c \in Channel, NEW u \in ServerTables.members,
           Ends(q), UpToDate(q)
    PROVE  Effective(c, u)' \ Effective(c, u) \subseteq ServerPermissions(ServerTables, ActorOf[q])
<1>1. CASE WriteOverwrite(q) BY <1>1, EditGains
<1>2. CASE CommitMove(q) \/ CommitSync(q) \/ CommitUnsync(q)
 <2>1. CASE Effective(c, u)' = Effective(c, u) BY <2>1
 <2>2. CASE CanChangeSource(ActorOf[q], overwriteRows[OverwriteSource(c)],
                            overwriteRows'[OverwriteSource(c)'])
   BY <2>2, SourceChangeIsGranted, GainsAreGranted DEF Effective
 <2> QED BY <1>2, <2>1, <2>2, CommitSources
<1>3. CASE CommitFails(q) BY <1>3 DEF CommitFails, Effective, OverwriteSource, CategoryIsSource
<1> QED BY <1>1, <1>2, <1>3, EndingSteps

\* A step that detaches a channel from its category copies the category's rows.
LEMMA StepDetach ==
    ASSUME ChannelIInv, ChannelNext, NEW c \in Channel, CategoryIsSource(channelRow[c]),
           channelRow'[c].live, ~CategoryIsSource(channelRow'[c]),
           \A q \in ChannelReq : Ends(q) => UpToDate(q)
    PROVE  \A u : Effective(c, u)' = Effective(c, u)
<1> USE DEF ChannelIInv, ChannelTypeOK
<1>0. channelRow'[c] # channelRow[c] /\ channelRow[c].live
 <2>1. ~CategoryIsSource(NoChannelRow) BY DEF CategoryIsSource, NoChannelRow
 <2> QED BY <2>1 DEF RowsAreSound
<1>1. ASSUME NEW q \in ChannelReq, Starting(q)
      PROVE  FALSE
  BY <1>0, <1>1 DEF Starting, Begin
<1>2. ASSUME NEW a \in Actor, NEW d \in Channel, NEW k \in Category \cup {NoCategory},
             NEW private \in BOOLEAN, CreateChannel(a, d, k, private)
      PROVE  FALSE
  BY <1>0, <1>2 DEF CreateChannel
<1>3. ASSUME NEW a \in Actor, NEW d \in Channel, DeleteChannel(a, d)
      PROVE  FALSE
  BY <1>0, <1>3 DEF DeleteChannel, NoChannelRow
<1>4. ASSUME NEW a \in Actor, NEW k \in Category, CreateCategory(a, k)
      PROVE  FALSE
  BY <1>0, <1>4 DEF CreateCategory
<1>5. ASSUME NEW a \in Actor, NEW k \in Category, DeleteCategory(a, k)
      PROVE  \A u : Effective(c, u)' = Effective(c, u)
 <2>1. channelRow[c].category = k /\ channelRow[c].permissionsSynced /\ c # k
   BY <1>0, <1>5, ChannelAccessAssumption DEF DeleteCategory, CategoryIsSource
 <2>2. overwriteRows'[c] = overwriteRows[k] BY <1>5, <2>1 DEF DeleteCategory, Place
 <2> QED BY <2>1, <2>2, SameRowsSameAccess DEF OverwriteSource
<1>6. ASSUME NEW q \in ChannelReq, WriteOverwrite(q) \/ CommitFails(q)
      PROVE  FALSE
  BY <1>0, <1>6 DEF WriteOverwrite, CommitFails
<1>7. ASSUME NEW q \in ChannelReq, CommitMove(q) \/ CommitSync(q) \/ CommitUnsync(q)
      PROVE  \A u : Effective(c, u)' = Effective(c, u)
 <2>1. Ends(q)
   BY <1>7, NoChannelRequestType DEF CommitMove, CommitSync, CommitUnsync, Finish, Ends, NoChannelRequest
 <2> QED BY <1>7, <2>1, CommitSources
<1>8. ASSUME NEW q \in ChannelReq, NEW p \in Place, NEW t \in Target,
             \/ \E masks \in Masks : EditOverwrite(q, p, t, "upsert", masks)
             \/ EditOverwrite(q, p, t, "remove", NoMasks)
      PROVE  FALSE
  BY <1>1, <1>8, EditGoodRead
<1>9. ASSUME NEW q \in ChannelReq, NEW d \in Channel,
             \/ \E to \in Category \cup {NoCategory} : StartMove(q, d, to)
             \/ \E op \in {"sync", "unsync"} : StartSync(q, d, op)
      PROVE  FALSE
 <2>1. CASE \E to \in Category \cup {NoCategory} : StartMove(q, d, to) BY <1>1, <2>1, SourceChangeGoodRead
 <2>2. CASE \E op \in {"sync", "unsync"} : StartSync(q, d, op) BY <1>1, <2>2, SourceChangeGoodRead
 <2> QED BY <1>9, <2>1, <2>2
<1> QED BY <1>2, <1>3, <1>4, <1>5, <1>6, <1>7, <1>8, <1>9 DEF ChannelNext

\* Type correctness of the channel tables, with what the requests have read.
THEOREM ChannelRowsSound == ChannelSpec => [](ChannelTypeOK /\ RowsAreSound)
<1>1. ChannelInit => ChannelIInv BY ChannelInitIInv
<1>2. ChannelIInv /\ [ChannelNext]_channelVars => ChannelIInv' BY StepChannelIInv
<1>3. ChannelIInv => ChannelTypeOK /\ RowsAreSound BY DEF ChannelIInv
<1> QED BY <1>1, <1>2, <1>3, PTL DEF ChannelSpec

\* A channel that stops being governed by its category keeps everybody's effective
\* permissions (unsyncChannelPermissions, updateChannel and deleteCategory copy the
\* category's overwrites in the transaction that detaches).
THEOREM DetachingPreservesAccess == ChannelSpec => DetachPreservesAccess
<1> DEFINE A == \A c \in Channel :
           (/\ CategoryIsSource(channelRow[c])
            /\ channelRow'[c].live /\ ~CategoryIsSource(channelRow'[c])
            /\ \A q \in ChannelReq : Ends(q) => UpToDate(q))
           => \A u \in ServerTables.members : Effective(c, u)' = Effective(c, u)
<1>1. ChannelInit => ChannelIInv BY ChannelInitIInv
<1>2. ChannelIInv /\ [ChannelNext]_channelVars => ChannelIInv' BY StepChannelIInv
<1>3. ChannelIInv /\ [ChannelNext]_channelVars => [A]_channelVars BY StepDetach
<1>4. ChannelSpec => [][A]_channelVars BY <1>1, <1>2, <1>3, PTL DEF ChannelSpec
<1> QED BY <1>4 DEF DetachPreservesAccess

\* Nobody gains a channel permission from a change by a member that lacks it
\* (assertCanApplyOverwriteSourceTransition, assertCanGrantPermissions).
THEOREM GrantsStayBelowTheirCaller == ChannelSpec => GrantCeiling
<1> DEFINE A == \A q \in ChannelReq, c \in Channel :
           (Ends(q) /\ UpToDate(q) /\ channelRow[c].live /\ channelRow'[c].live)
           => \A u \in ServerTables.members :
                  Effective(c, u)' \ Effective(c, u)
                      \subseteq ServerPermissions(ServerTables, ActorOf[q])
<1>1. ChannelInit => ChannelIInv BY ChannelInitIInv
<1>2. ChannelIInv /\ [ChannelNext]_channelVars => ChannelIInv' BY StepChannelIInv
<1>3. ChannelIInv /\ [ChannelNext]_channelVars => [A]_channelVars BY StepGrantCeiling
<1>4. ChannelSpec => [][A]_channelVars BY <1>1, <1>2, <1>3, PTL DEF ChannelSpec
<1> QED BY <1>4 DEF GrantCeiling

------------------------------------------------------------
(* Roles                                                                   *)

\* A finite set of roles has one at the highest position.
LEMMA HighestRoleExists ==
    ASSUME NEW A, IsFiniteSet(A), A # {}, NEW pos, \A r \in A : pos[r] \in Int
    PROVE  \E m \in A : \A r \in A : pos[r] <= pos[m]
<1> DEFINE above(r) == {s \in A : pos[s] > pos[r]}
           T == {above(r) : r \in A}
<1>1. IsWellFoundedOn(StrictSubsetOrdering(A), FiniteSubsetsOf(A)) BY FS_StrictSubsetOrderingWellFounded
<1>2. T \subseteq FiniteSubsetsOf(A) /\ T # {}
 <2>1. FiniteSubsetsOf(A) = SUBSET A BY FS_FiniteSubsetsOfFinite
 <2>2. T \subseteq SUBSET A OBVIOUS
 <2>3. PICK r \in A : TRUE OBVIOUS
 <2>4. above(r) \in T OBVIOUS
 <2> QED BY <2>1, <2>2, <2>4
<1>3. PICK x \in T : \A y \in T : ~(<<y, x>> \in StrictSubsetOrdering(A)) BY <1>1, <1>2, WFMin
<1>4. PICK m \in A : x = above(m) OBVIOUS
<1>5. ASSUME NEW r \in A, ~(pos[r] <= pos[m])
      PROVE  FALSE
 <2>1. pos[r] > pos[m] /\ pos[r] \in Int /\ pos[m] \in Int BY <1>5
 <2>2. above(r) \subseteq above(m) BY <2>1
 <2>3. r \in above(m) /\ r \notin above(r) BY <2>1
 <2>4. <<above(r), above(m)>> \in StrictSubsetOrdering(A) BY <2>2, <2>3 DEF StrictSubsetOrdering
 <2> QED BY <1>3, <1>4, <2>4
<1> QED BY <1>5

\* The bits of a member by @everyone and by the roles it has.
Held(grants, roles) == grants[Everyone] \cup UNION {grants[r] : r \in roles}

\* The permissions of a member of the server that holds those bits.
PermissionsOf(u, held) ==
    IF u = RoleOwner \/ "ADMINISTRATOR" \in held THEN ALL_SERVER_PERMISSIONS
    ELSE held \cap ALL_SERVER_PERMISSIONS

\* Who gains bits that a member has gains nothing that it has not; the bit that
\* stands for all of them is one of them.
LEMMA GainsOfRoles ==
    ASSUME NEW a, NEW u, NEW mine, NEW held, NEW next,
           next \subseteq held \cup PermissionsOf(a, mine)
    PROVE  PermissionsOf(u, next) \ PermissionsOf(u, held) \subseteq PermissionsOf(a, mine)
BY DEF PermissionsOf

\* The highest position among some roles and @everyone.
HighestOf(pos, roles) ==
    CHOOSE p \in {pos[r] : r \in roles \cup {Everyone}} : \A r \in roles \cup {Everyone} : pos[r] <= p

\* What the tables say of a member, before a step and after it.
LEMMA TablesOfMember ==
    ASSUME NEW u \in RoleMember
    PROVE  /\ ServerPermissions(Tables, u) = PermissionsOf(u, Held(roleGrants, assigned[u]))
           /\ ServerPermissions(Tables, u)' = PermissionsOf(u, Held(roleGrants', assigned'[u]))
           /\ HighestPosition(Tables, u, TRUE) = Rank(u)
           /\ Rank(u) = HighestOf(rolePosition, assigned[u])
           /\ Rank(u)' = HighestOf(rolePosition', assigned'[u])
<1>1. ServerPermissions(Tables, u) = PermissionsOf(u, Held(roleGrants, assigned[u]))
  BY DEF ServerPermissions, Tables, PermissionsOf, Held, MemberPermissions, IsOwner, IsActiveMember
<1>2. ServerPermissions(Tables, u)' = PermissionsOf(u, Held(roleGrants', assigned'[u]))
  BY DEF ServerPermissions, Tables, PermissionsOf, Held, MemberPermissions, IsOwner, IsActiveMember
<1>3. HighestPosition(Tables, u, TRUE) = Rank(u) BY DEF HighestPosition, Rank, Tables, HighestOf
<1>4. Rank(u) = HighestOf(rolePosition, assigned[u]) BY DEF HighestPosition, Rank, Tables, HighestOf
<1>5. Rank(u)' = HighestOf(rolePosition', assigned'[u]) BY DEF HighestPosition, Rank, Tables, HighestOf
<1> QED BY <1>1, <1>2, <1>3, <1>4, <1>5

\* The rank of a member is the position of one of its roles, and no other of
\* them is higher.
LEMMA RankIsHighest ==
    ASSUME NEW pos \in [AnyRole -> Int], NEW roles \in SUBSET CustomRole
    PROVE  /\ \E r \in roles \cup {Everyone} : HighestOf(pos, roles) = pos[r]
           /\ \A r \in roles \cup {Everyone} : pos[r] <= HighestOf(pos, roles)
<1>1. IsFiniteSet(roles \cup {Everyone})
 <2>1. IsFiniteSet(roles) BY RoleAssumption, FS_Subset
 <2> QED BY <2>1, FS_AddElement
<1>2. \A r \in roles \cup {Everyone} : pos[r] \in Int BY DEF AnyRole
<1>3. PICK m \in roles \cup {Everyone} : \A r \in roles \cup {Everyone} : pos[r] <= pos[m]
  BY <1>1, <1>2, HighestRoleExists
<1>4. \E p \in {pos[r] : r \in roles \cup {Everyone}} : \A r \in roles \cup {Everyone} : pos[r] <= p BY <1>3
<1> QED BY <1>4 DEF HighestOf

\* An order of finitely many roles lists every one of them, once.
LEMMA OrderIsPermutation ==
    ASSUME NEW S, IsFiniteSet(S), NEW f \in Orders(S)
    PROVE  /\ Cardinality(S) \in Nat
           /\ f \in [1..Cardinality(S) -> S]
           /\ \A i, j \in 1..Cardinality(S) : f[i] = f[j] => i = j
           /\ \A r \in S : \E i \in 1..Cardinality(S) : f[i] = r
<1> DEFINE n == Cardinality(S)
<1>1. n \in Nat BY FS_CardinalityType
<1>2. f \in [1..n -> S] /\ \A i, j \in 1..n : f[i] = f[j] => i = j BY DEF Orders
<1>3. f \in Injection(1..n, S) BY <1>2 DEF Injection, IsInjective
<1>4. Cardinality(1..n) = n BY <1>1, FS_Interval
<1>5. f \in Surjection(1..n, S) BY <1>3, <1>4, FS_Injection
<1> QED BY <1>1, <1>2, <1>5 DEF Surjection

\* A request as its fields belong together.
WellFormed(req) ==
    /\ req \in RoleRequest
    /\ req.op = "create" => req.role \in CustomRole
    /\ req.op \in {"assign", "unassign"} => req.member \in RoleMember

\* What request q was allowed when it started holds on the tables as they are.
StillAllowed(q, req) ==
    LET a == RoleActorOf[q] IN
    /\ req.op = "create" => req.role \notin roleLive /\ MayGrant(a, req.bits)
    /\ req.op = "update" => MayManage(a, req.role) /\ MayGrant(a, req.bits \ roleGrants[req.role])
    /\ req.op = "delete" => MayManage(a, req.role)
    /\ req.op \in {"assign", "unassign"} => MayChangeMember(a, req.member, req.role)
    /\ req.op = "assign" => MayGrant(a, roleGrants[req.role])
    /\ req.op = "reorder" =>
           /\ req.order \in Orders(roleLive)
           /\ \E listed \in Orders(roleLive) :
                  Listed(listed) /\ (a = RoleOwner \/ KeepsSeniorRoles(a, listed, req.order))

RolesTyped ==
    /\ roleLive \subseteq CustomRole
    /\ rolePosition \in [AnyRole -> 0..MaxPosition]
    /\ roleGrants \in [AnyRole -> SUBSET ALL_SERVER_PERMISSIONS]
    /\ assigned \in [RoleMember -> SUBSET roleLive]

RoleRequestsSound ==
    /\ roleReq \in [RoleReq -> RoleRequest]
    /\ \A q \in RoleReq :
           /\ WellFormed(roleReq[q])
           /\ (roleReq[q].op # "none" /\ roleReq[q].fresh) => StillAllowed(q, roleReq[q])

RoleIInv == RolesTyped /\ RoleRequestsSound

\* Request q starts.
RoleStarting(q) ==
    \E req : /\ WellFormed(req) /\ StillAllowed(q, req) /\ req.op # "none"
             /\ Idle(q) /\ Started(q, req)

RoleWriting(q) ==
    WriteCreate(q) \/ WriteUpdate(q) \/ WriteDelete(q) \/ WriteMember(q) \/ WriteReorder(q)

\* A request that has ended.
LEMMA NoRoleRequestType == NoRoleRequest \in RoleRequest /\ WellFormed(NoRoleRequest) /\ NoRoleRequest.op = "none"
<1>1. NoOrder \in Orders({})
 <2>1. Cardinality({}) = 0 BY FS_EmptySet
 <2>2. NoOrder \in [1..0 -> {}] BY DEF NoOrder
 <2> QED BY <2>1, <2>2 DEF Orders
<1>2. NoRoleRequest \in RoleRequest
 <2>1. NoOrder \in UNION {Orders(S) : S \in SUBSET CustomRole} BY <1>1
 <2>2. 0 \in 0..MaxPosition BY RoleAssumption
 <2> QED BY <2>1, <2>2 DEF NoRoleRequest, RoleRequest
<1> QED BY <1>2 DEF WellFormed, NoRoleRequest

\* The initial state satisfies the inductive invariant.
LEMMA RoleInitIInv == RoleInit => RoleIInv
<1> SUFFICES ASSUME RoleInit PROVE RoleIInv OBVIOUS
<1>1. RolesTyped BY RoleAssumption DEF RoleInit, RolesTyped, AnyRole
<1>2. RoleRequestsSound BY NoRoleRequestType DEF RoleInit, RoleRequestsSound
<1> QED BY <1>1, <1>2 DEF RoleIInv

\* Above all other roles, or below the caller's: a position in any case.
LEMMA DefaultPositionType ==
    ASSUME RoleIInv, NEW a \in RoleMember
    PROVE  DefaultPosition(a) \in Int /\ DefaultPosition(a) >= 1
<1> USE DEF RoleIInv, RolesTyped
<1>0. roleLive \subseteq AnyRole /\ MaxPosition \in Nat /\ IsFiniteSet(roleLive)
 <2>1. IsFiniteSet(roleLive) BY RoleAssumption, FS_Subset
 <2> QED BY <2>1, RoleAssumption DEF AnyRole
<1>1. CASE a = RoleOwner
 <2> DEFINE Above(p) == /\ \A r \in roleLive : rolePosition[r] < p
                        /\ p = 1 \/ \E r \in roleLive : rolePosition[r] = p - 1
 <2>1. \E p \in 1..MaxPosition + 1 : Above(p)
  <3>1. CASE roleLive = {} BY <1>0, <3>1
  <3>2. CASE roleLive # {}
   <4>1. \A r \in roleLive : rolePosition[r] \in Int BY <1>0
   <4>2. PICK m \in roleLive : \A r \in roleLive : rolePosition[r] <= rolePosition[m]
     BY <1>0, <3>2, <4>1, HighestRoleExists
   <4>3. rolePosition[m] + 1 \in 1..MaxPosition + 1 BY <1>0
   <4>4. Above(rolePosition[m] + 1) BY <1>0, <4>1, <4>2
   <4> QED BY <4>3, <4>4
  <3> QED BY <3>1, <3>2
 <2>2. DefaultPosition(a) = CHOOSE p \in 1..MaxPosition + 1 : Above(p) BY <1>1 DEF DefaultPosition
 <2> HIDE DEF Above
 <2>3. DefaultPosition(a) \in 1..MaxPosition + 1 BY <2>1, <2>2
 <2> QED BY <1>0, <2>3
<1>2. CASE a # RoleOwner
 <2>1. Rank(a) \in Int
  <3>1. assigned[a] \in SUBSET CustomRole /\ rolePosition \in [AnyRole -> Int] BY <1>0
  <3>2. \E r \in assigned[a] \cup {Everyone} : Rank(a) = rolePosition[r] BY <3>1, TablesOfMember, RankIsHighest
  <3> QED BY <3>1, <3>2 DEF AnyRole
 <2> QED BY <1>2, <2>1 DEF DefaultPosition
<1> QED BY <1>1, <1>2

\* What a request that starts is, operation by operation.
LEMMA StartsAllowed ==
    ASSUME RoleIInv, NEW q \in RoleReq,
           \/ \E r \in CustomRole, bits \in RoleGrants : StartCreate(q, r, bits)
           \/ \E r \in AnyRole, bits \in RoleGrants : StartUpdate(q, r, bits)
           \/ \E r \in CustomRole : StartDelete(q, r)
           \/ \E r \in CustomRole, u \in Assignee : StartAssign(q, u, r) \/ StartUnassign(q, u, r)
           \/ StartReorder(q)
    PROVE  RoleStarting(q)
<1> USE NoRoleRequestType, RoleAssumption
<1>1. ASSUME NEW r \in CustomRole, NEW bits \in RoleGrants, StartCreate(q, r, bits)
      PROVE  RoleStarting(q)
 <2>1. PICK p \in 1..MaxPosition \cup {DefaultPosition(RoleActorOf[q])} :
           /\ p <= MaxPosition
           /\ Started(q, [NoRoleRequest EXCEPT !.op = "create", !.role = r, !.position = p, !.bits = bits])
   BY <1>1 DEF StartCreate
 <2> DEFINE req == [NoRoleRequest EXCEPT !.op = "create", !.role = r, !.position = p, !.bits = bits]
 <2>2. p \in 0..MaxPosition BY <2>1, DefaultPositionType
 <2>3. req \in RoleRequest BY <2>2 DEF RoleRequest, AnyRole
 <2>4. req.op = "create" /\ req.role = r /\ req.bits = bits BY DEF NoRoleRequest
 <2>5. Idle(q) /\ r \notin roleLive /\ MayGrant(RoleActorOf[q], bits) BY <1>1 DEF StartCreate, FreeRoleId
 <2> HIDE DEF req
 <2>6. WellFormed(req) /\ StillAllowed(q, req) BY <2>3, <2>4, <2>5 DEF WellFormed, StillAllowed
 <2>7. Started(q, req) BY <2>1 DEF req
 <2> QED BY <2>4, <2>5, <2>6, <2>7 DEF RoleStarting
<1>2. ASSUME NEW r \in AnyRole, NEW bits \in RoleGrants, StartUpdate(q, r, bits)
      PROVE  RoleStarting(q)
 <2> DEFINE req == [NoRoleRequest EXCEPT !.op = "update", !.role = r, !.bits = bits]
 <2>1. req \in RoleRequest BY DEF RoleRequest
 <2>2. req.op = "update" /\ req.role = r /\ req.bits = bits BY DEF NoRoleRequest
 <2>3. /\ Idle(q) /\ Started(q, req) /\ MayManage(RoleActorOf[q], r)
       /\ MayGrant(RoleActorOf[q], bits \ roleGrants[r])
   BY <1>2 DEF StartUpdate
 <2> HIDE DEF req
 <2>4. WellFormed(req) /\ StillAllowed(q, req) BY <2>1, <2>2, <2>3 DEF WellFormed, StillAllowed
 <2> QED BY <2>2, <2>3, <2>4 DEF RoleStarting
<1>3. ASSUME NEW r \in CustomRole, StartDelete(q, r)
      PROVE  RoleStarting(q)
 <2> DEFINE req == [NoRoleRequest EXCEPT !.op = "delete", !.role = r]
 <2>1. req \in RoleRequest BY DEF RoleRequest, AnyRole
 <2>2. req.op = "delete" /\ req.role = r BY DEF NoRoleRequest
 <2>3. Idle(q) /\ Started(q, req) /\ MayManage(RoleActorOf[q], r) BY <1>3 DEF StartDelete
 <2> HIDE DEF req
 <2>4. WellFormed(req) /\ StillAllowed(q, req) BY <2>1, <2>2, <2>3 DEF WellFormed, StillAllowed
 <2> QED BY <2>2, <2>3, <2>4 DEF RoleStarting
<1>4. ASSUME NEW r \in CustomRole, NEW u \in Assignee, StartAssign(q, u, r) \/ StartUnassign(q, u, r)
      PROVE  RoleStarting(q)
 <2>1. PICK op \in {"assign", "unassign"} :
           /\ Started(q, [NoRoleRequest EXCEPT !.op = op, !.role = r, !.member = u])
           /\ Idle(q) /\ MayChangeMember(RoleActorOf[q], u, r)
           /\ op = "assign" => MayGrant(RoleActorOf[q], roleGrants[r])
   BY <1>4 DEF StartAssign, StartUnassign
 <2> DEFINE req == [NoRoleRequest EXCEPT !.op = op, !.role = r, !.member = u]
 <2>2. req \in RoleRequest BY DEF RoleRequest, AnyRole
 <2>3. req.op = op /\ req.role = r /\ req.member = u BY DEF NoRoleRequest
 <2>4. Started(q, req) BY <2>1
 <2> HIDE DEF req
 <2>5. WellFormed(req) /\ StillAllowed(q, req) BY <2>1, <2>2, <2>3 DEF WellFormed, StillAllowed
 <2> QED BY <2>1, <2>3, <2>4, <2>5 DEF RoleStarting
<1>5. ASSUME StartReorder(q)
      PROVE  RoleStarting(q)
 <2>1. PICK listed \in Orders(roleLive), order \in Orders(roleLive) :
           /\ Listed(listed)
           /\ RoleActorOf[q] = RoleOwner \/ KeepsSeniorRoles(RoleActorOf[q], listed, order)
           /\ Started(q, [NoRoleRequest EXCEPT !.op = "reorder", !.order = order])
   BY <1>5 DEF StartReorder
 <2> DEFINE req == [NoRoleRequest EXCEPT !.op = "reorder", !.order = order]
 <2>2. order \in UNION {Orders(S) : S \in SUBSET CustomRole} BY DEF RoleIInv, RolesTyped
 <2>3. req \in RoleRequest BY <2>2 DEF RoleRequest
 <2>4. req.op = "reorder" /\ req.order = order BY DEF NoRoleRequest
 <2>5. Idle(q) /\ Started(q, req) BY <1>5, <2>1 DEF StartReorder
 <2> HIDE DEF req
 <2>6. WellFormed(req) /\ StillAllowed(q, req) BY <2>1, <2>3, <2>4 DEF WellFormed, StillAllowed
 <2> QED BY <2>4, <2>5, <2>6 DEF RoleStarting
<1> QED BY <1>1, <1>2, <1>3, <1>4, <1>5

\* What a step does: it starts a request, writes, or gives up.
LEMMA RoleStepKinds ==
    ASSUME RoleIInv, RoleNext
    PROVE  \E q \in RoleReq :
               \/ RoleStarting(q)
               \/ ~Idle(q) /\ RoleWriting(q) /\ Written(q)
               \/ ~Idle(q) /\ RoleRequestFails(q)
<1>1. PICK q \in RoleReq :
        \/ \/ \E r \in CustomRole, bits \in RoleGrants : StartCreate(q, r, bits)
           \/ \E r \in AnyRole, bits \in RoleGrants : StartUpdate(q, r, bits)
           \/ \E r \in CustomRole : StartDelete(q, r)
           \/ \E r \in CustomRole, u \in Assignee : StartAssign(q, u, r) \/ StartUnassign(q, u, r)
           \/ StartReorder(q)
        \/ RoleWriting(q)
        \/ RoleRequestFails(q)
  BY DEF RoleNext, RoleWriting
<1>2. RoleWriting(q) => ~Idle(q) /\ Written(q)
  BY DEF RoleWriting, WriteCreate, WriteUpdate, WriteDelete, WriteMember, WriteReorder, Idle
<1>3. RoleRequestFails(q) => ~Idle(q) BY DEF RoleRequestFails
<1> QED BY <1>1, <1>2, <1>3, StartsAllowed

\* An order lists as many roles as there are, and there is a position for each.
LEMMA OrderOfRequest ==
    ASSUME NEW f \in UNION {Orders(S) : S \in SUBSET CustomRole}
    PROVE  /\ Len(f) \in 0..MaxPosition /\ DOMAIN f = 1..Len(f)
           /\ \A i \in DOMAIN f : f[i] \in CustomRole
           /\ \A i, j \in DOMAIN f : f[i] = f[j] => i = j
<1>1. PICK S \in SUBSET CustomRole : f \in Orders(S) OBVIOUS
<1>2. IsFiniteSet(S) /\ Cardinality(S) <= Cardinality(CustomRole) /\ Cardinality(CustomRole) \in Nat
  BY RoleAssumption, FS_Subset, FS_CardinalityType
<1>3. /\ Cardinality(S) \in Nat /\ f \in [1..Cardinality(S) -> S]
      /\ \A i, j \in 1..Cardinality(S) : f[i] = f[j] => i = j
  BY <1>1, <1>2, OrderIsPermutation
<1>4. f \in Seq(S) /\ Len(f) = Cardinality(S) BY <1>3
<1> QED BY <1>2, <1>3, <1>4, RoleAssumption

\* The position a reorder gives a role of its list.
LEMMA ReorderPositions ==
    ASSUME RoleIInv, NEW q \in RoleReq, WriteReorder(q)
    PROVE  LET order == roleReq[q].order IN
           /\ \A i \in DOMAIN order : rolePosition'[order[i]] = Len(order) + 1 - i
           /\ rolePosition' \in [AnyRole -> 0..MaxPosition]
           /\ Everyone \notin {order[i] : i \in DOMAIN order} /\ rolePosition'[Everyone] = 0
<1> DEFINE order == roleReq[q].order
           at(r) == CHOOSE i \in DOMAIN order : order[i] = r
<1>1. order \in UNION {Orders(S) : S \in SUBSET CustomRole} BY DEF RoleIInv, RoleRequestsSound, RoleRequest
<1>2. /\ Len(order) \in 0..MaxPosition /\ DOMAIN order = 1..Len(order)
      /\ \A i \in DOMAIN order : order[i] \in CustomRole
      /\ \A i, j \in DOMAIN order : order[i] = order[j] => i = j
  BY <1>1, OrderOfRequest
<1>3. rolePosition' = [r \in AnyRole |->
           IF \E i \in DOMAIN order : order[i] = r THEN Len(order) + 1 - at(r)
           ELSE IF r = Everyone THEN 0 ELSE rolePosition[r]]
  BY DEF WriteReorder
<1> HIDE DEF order
<1>4. \A i \in DOMAIN order : at(order[i]) = i BY <1>2
<1>5. \A r : (\E i \in DOMAIN order : order[i] = r) => at(r) \in DOMAIN order OBVIOUS
<1> HIDE DEF at
<1>6. MaxPosition \in Nat /\ Everyone \notin CustomRole BY RoleAssumption
<1>7. \A i \in DOMAIN order : rolePosition'[order[i]] = Len(order) + 1 - i BY <1>2, <1>3, <1>4 DEF AnyRole
<1>8. rolePosition' \in [AnyRole -> 0..MaxPosition]
 <2>1. ASSUME NEW r \in AnyRole, \E i \in DOMAIN order : order[i] = r
       PROVE  Len(order) + 1 - at(r) \in 0..MaxPosition
   BY <1>2, <1>5, <1>6, <2>1
 <2>2. 0 \in 0..MaxPosition /\ rolePosition \in [AnyRole -> 0..MaxPosition] BY <1>6 DEF RoleIInv, RolesTyped
 <2> QED BY <1>3, <2>1, <2>2
<1>9. Everyone \notin {order[i] : i \in DOMAIN order} /\ rolePosition'[Everyone] = 0
  BY <1>2, <1>3, <1>6 DEF AnyRole
<1> QED BY <1>7, <1>8, <1>9 DEF order

\* Every step keeps the tables well typed.
LEMMA StepRolesTyped ==
    ASSUME RoleIInv, NEW q \in RoleReq, RoleWriting(q)
    PROVE  RolesTyped'
<1> USE DEF RoleIInv, RolesTyped
<1> DEFINE req == roleReq[q]
<1>1. req \in RoleRequest /\ WellFormed(req) BY DEF RoleRequestsSound
<1>2. req.position \in 0..MaxPosition /\ req.bits \in SUBSET ALL_SERVER_PERMISSIONS BY <1>1 DEF RoleRequest
<1>3. 0 \in 0..MaxPosition BY RoleAssumption
<1>4. CASE WriteCreate(q)
 <2>1. req.role \in CustomRole BY <1>1, <1>4 DEF WriteCreate, WellFormed
 <2> QED BY <1>2, <1>4, <2>1 DEF WriteCreate
<1>5. CASE WriteUpdate(q) BY <1>2, <1>5 DEF WriteUpdate
<1>6. CASE WriteDelete(q) BY <1>3, <1>6 DEF WriteDelete
<1>7. CASE WriteMember(q)
 <2>1. req.member \in RoleMember BY <1>1, <1>7 DEF WriteMember, WellFormed
 <2> QED BY <1>7, <2>1 DEF WriteMember
<1>8. CASE WriteReorder(q) BY <1>8, ReorderPositions DEF WriteReorder
<1> QED BY <1>4, <1>5, <1>6, <1>7, <1>8 DEF RoleWriting

\* Every step preserves the inductive invariant.
LEMMA StepRoleIInv == RoleIInv /\ [RoleNext]_roleVars => RoleIInv'
<1>1. ASSUME RoleIInv, NEW q \in RoleReq, RoleStarting(q)
      PROVE  RoleIInv'
 <2>1. PICK req : /\ WellFormed(req) /\ StillAllowed(q, req) /\ req.op # "none"
                  /\ Idle(q) /\ Started(q, req)
   BY <1>1 DEF RoleStarting
 <2>2. req \in RoleRequest /\ roleReq' = [roleReq EXCEPT ![q] = req] /\ UNCHANGED roleTables
   BY <2>1 DEF WellFormed, Started
 <2>3. \A p \in RoleReq : \A r : StillAllowed(p, r)' = StillAllowed(p, r)
   BY <2>2 DEF StillAllowed, roleTables, MayGrant, MayManage, MayChangeMember, Tables, Listed,
               KeepsSeniorRoles, Rank
 <2>4. RolesTyped' BY <1>1, <2>2 DEF RoleIInv, RolesTyped, roleTables
 <2>5. RoleRequestsSound' BY <1>1, <2>1, <2>2, <2>3 DEF RoleIInv, RoleRequestsSound
 <2> QED BY <2>4, <2>5 DEF RoleIInv
<1>2. ASSUME RoleIInv, NEW q \in RoleReq, RoleWriting(q), Written(q)
      PROVE  RoleIInv'
 <2>1. RolesTyped' BY <1>2, StepRolesTyped
 <2>2. ASSUME NEW p \in RoleReq
       PROVE  /\ roleReq'[p] \in RoleRequest /\ WellFormed(roleReq'[p])
              /\ roleReq'[p].op # "none" => ~roleReq'[p].fresh
  <3>1. CASE p = q \/ Idle(p) BY <1>2, <3>1, NoRoleRequestType DEF Written
  <3>2. CASE ~(p = q \/ Idle(p))
   <4> DEFINE r == roleReq[p]
   <4>1. roleReq'[p] = [r EXCEPT !.fresh = FALSE] BY <1>2, <3>2 DEF Written
   <4>2. r \in RoleRequest /\ WellFormed(r) BY <1>2 DEF RoleIInv, RoleRequestsSound
   <4> HIDE DEF r
   <4>3. [r EXCEPT !.fresh = FALSE] \in RoleRequest BY <4>2 DEF RoleRequest
   <4>4. WellFormed([r EXCEPT !.fresh = FALSE]) /\ ~[r EXCEPT !.fresh = FALSE].fresh
     BY <4>2, <4>3 DEF WellFormed, RoleRequest
   <4> QED BY <4>1, <4>3, <4>4
  <3> QED BY <3>1, <3>2
 <2>3. roleReq' \in [RoleReq -> RoleRequest] BY <1>2, <2>2 DEF Written
 <2> QED BY <2>1, <2>2, <2>3 DEF RoleIInv, RoleRequestsSound
<1>3. ASSUME RoleIInv, NEW q \in RoleReq, RoleRequestFails(q)
      PROVE  RoleIInv'
 <2>1. roleReq' = [roleReq EXCEPT ![q] = NoRoleRequest] /\ UNCHANGED roleTables BY <1>3 DEF RoleRequestFails
 <2>2. \A p \in RoleReq : \A r : StillAllowed(p, r)' = StillAllowed(p, r)
   BY <2>1 DEF StillAllowed, roleTables, MayGrant, MayManage, MayChangeMember, Tables, Listed,
               KeepsSeniorRoles, Rank
 <2>3. RolesTyped' BY <1>3, <2>1 DEF RoleIInv, RolesTyped, roleTables
 <2>4. RoleRequestsSound' BY <1>3, <2>1, <2>2, NoRoleRequestType DEF RoleIInv, RoleRequestsSound
 <2> QED BY <2>3, <2>4 DEF RoleIInv
<1>4. ASSUME RoleIInv, UNCHANGED roleVars
      PROVE  RoleIInv'
 <2>1. \A p \in RoleReq : \A r : StillAllowed(p, r)' = StillAllowed(p, r)
   BY <1>4 DEF StillAllowed, roleVars, MayGrant, MayManage, MayChangeMember, Tables, Listed,
               KeepsSeniorRoles, Rank
 <2> QED BY <1>4, <2>1 DEF RoleIInv, RolesTyped, RoleRequestsSound, roleVars
<1> QED BY <1>1, <1>2, <1>3, <1>4, RoleStepKinds

\* What SeniorsUntouched says of a step by member a.
Untouched(a) ==
    /\ \A r \in roleLive : rolePosition[r] > Rank(a) =>
           /\ r \in roleLive' /\ rolePosition'[r] > Rank(a)'
           /\ roleGrants'[r] = roleGrants[r]
           /\ \A u \in RoleMember : (r \in assigned'[u]) = (r \in assigned[u])
    /\ \A u \in RoleMember \ {a} : (u = RoleOwner \/ Rank(u) >= Rank(a)) =>
           assigned'[u] = assigned[u] \cap roleLive'
    /\ \A u \in RoleMember :
           ServerPermissions(Tables, u)' \ ServerPermissions(Tables, u)
               \subseteq ServerPermissions(Tables, a)

\* A step leaves the seniors alone when no role of its caller passes one that is
\* senior, and who gains bits gains such as the caller has.
LEMMA LeavesSeniorsAlone ==
    ASSUME RoleIInv, RoleIInv', NEW a \in RoleMember,
           \A r \in roleLive : rolePosition[r] > Rank(a) =>
               /\ r \in roleLive' /\ roleGrants'[r] = roleGrants[r]
               /\ \A u \in RoleMember : (r \in assigned'[u]) = (r \in assigned[u])
               /\ \A x \in assigned'[a] \cup {Everyone} : rolePosition'[x] < rolePosition'[r],
           \A u \in RoleMember \ {a} : (u = RoleOwner \/ Rank(u) >= Rank(a)) =>
               assigned'[u] = assigned[u] \cap roleLive',
           \A u \in RoleMember : Held(roleGrants', assigned'[u])
               \subseteq Held(roleGrants, assigned[u]) \cup ServerPermissions(Tables, a)
    PROVE  Untouched(a)
<1>1. \E x \in assigned'[a] \cup {Everyone} : Rank(a)' = rolePosition'[x]
 <2>1. rolePosition' \in [AnyRole -> Int] /\ assigned'[a] \in SUBSET CustomRole
   BY RoleAssumption DEF RoleIInv, RolesTyped
 <2>2. \E x \in assigned'[a] \cup {Everyone} : HighestOf(rolePosition', assigned'[a]) = rolePosition'[x]
   BY <2>1, RankIsHighest
 <2> QED BY <2>2, TablesOfMember
<1>2. \A u \in RoleMember :
           ServerPermissions(Tables, u)' \ ServerPermissions(Tables, u)
               \subseteq ServerPermissions(Tables, a)
 <2> TAKE u \in RoleMember
 <2> DEFINE held == Held(roleGrants, assigned[u])
            next == Held(roleGrants', assigned'[u])
            mine == Held(roleGrants, assigned[a])
 <2>1. ServerPermissions(Tables, a) = PermissionsOf(a, mine) BY TablesOfMember
 <2>2. next \subseteq held \cup PermissionsOf(a, mine) BY <2>1
 <2>3. /\ ServerPermissions(Tables, u) = PermissionsOf(u, held)
       /\ ServerPermissions(Tables, u)' = PermissionsOf(u, next)
   BY TablesOfMember
 <2> HIDE DEF held, next, mine
 <2>4. PermissionsOf(u, next) \ PermissionsOf(u, held) \subseteq PermissionsOf(a, mine) BY <2>2, GainsOfRoles
 <2> QED BY <2>1, <2>3, <2>4
<1>3. \A r \in roleLive : rolePosition[r] > Rank(a) => rolePosition'[r] > Rank(a)'
  BY <1>1 DEF RoleIInv, RolesTyped, AnyRole
<1> QED BY <1>2, <1>3 DEF Untouched

\* The rank of a member bounds the positions of its roles.
LEMMA RankBounds ==
    ASSUME RoleIInv, NEW u \in RoleMember
    PROVE  Rank(u) \in Int /\ \A r \in assigned[u] \cup {Everyone} : rolePosition[r] \in Int /\ rolePosition[r] <= Rank(u)
<1>1. rolePosition \in [AnyRole -> Int] /\ assigned[u] \in SUBSET CustomRole
  BY RoleAssumption DEF RoleIInv, RolesTyped
<1> QED BY <1>1, TablesOfMember, RankIsHighest DEF AnyRole

\* The checks of RoleService, on one that is not the owner: a role that a may
\* manage ranks below it, and so does a member that it may manage.
LEMMA ManagesJuniors ==
    ASSUME NEW a \in RoleMember, a # RoleOwner
    PROVE  /\ \A r : MayManage(a, r) => Rank(a) > rolePosition[r]
           /\ \A u \in RoleMember : \A r : MayChangeMember(a, u, r) =>
                  u # a /\ u # RoleOwner /\ Rank(a) > Rank(u) /\ Rank(a) > rolePosition[r]
           /\ \A bits : MayGrant(a, bits) => bits \subseteq ServerPermissions(Tables, a)
<1>1. \A r : MayManage(a, r) => Rank(a) > rolePosition[r] BY DEF MayManage, CanManageRole, IsOwner, Tables, Rank
<1>2. ASSUME NEW u \in RoleMember, NEW r, MayChangeMember(a, u, r)
      PROVE  u # a /\ u # RoleOwner /\ Rank(a) > Rank(u)
 <2>1. CanManageMember(Tables, a, u, "MANAGE_ROLES") BY <1>2 DEF MayChangeMember
 <2>2. ~IsOwner(Tables, a) BY DEF IsOwner, Tables
 <2>3. u # a /\ ~IsOwner(Tables, u) /\ Rank(a) > HighestPosition(Tables, u, TRUE)
   BY <2>1, <2>2 DEF CanManageMember, Rank
 <2> QED BY <2>3, TablesOfMember DEF IsOwner, Tables
<1>3. \A bits : MayGrant(a, bits) => bits \subseteq ServerPermissions(Tables, a) BY GranterHasBits DEF MayGrant
<1> QED BY <1>1, <1>2, <1>3 DEF MayChangeMember

\* A reorder: the roles that are senior to the caller keep their places, so none
\* of the caller's passes them.
LEMMA ReorderKeepsSeniors ==
    ASSUME RoleIInv, NEW q \in RoleReq, WriteReorder(q), StillAllowed(q, roleReq[q]),
           NEW a \in RoleMember, a = RoleActorOf[q], a # RoleOwner,
           NEW r \in roleLive, rolePosition[r] > Rank(a),
           NEW x \in assigned[a] \cup {Everyone}
    PROVE  rolePosition'[x] < rolePosition'[r]
<1> DEFINE order == roleReq[q].order
           n == Cardinality(roleLive)
<1>1. PICK listed \in Orders(roleLive) : Listed(listed) /\ KeepsSeniorRoles(a, listed, order)
  BY DEF StillAllowed, WriteReorder
<1>2. order \in Orders(roleLive) /\ IsFiniteSet(roleLive)
  BY RoleAssumption, FS_Subset DEF StillAllowed, WriteReorder, RoleIInv, RolesTyped
<1>3. /\ n \in Nat /\ order \in [1..n -> roleLive] /\ listed \in [1..n -> roleLive]
      /\ \A s \in roleLive : (\E i \in 1..n : order[i] = s) /\ (\E i \in 1..n : listed[i] = s)
 <2>1. /\ n \in Nat /\ order \in [1..n -> roleLive]
       /\ \A s \in roleLive : \E i \in 1..n : order[i] = s
  <3> HIDE DEF order
  <3>1. /\ Cardinality(roleLive) \in Nat /\ order \in [1..Cardinality(roleLive) -> roleLive]
        /\ \A s \in roleLive : \E i \in 1..Cardinality(roleLive) : order[i] = s
    BY ONLY <1>2, OrderIsPermutation
  <3> QED BY <3>1
 <2>2. /\ listed \in [1..n -> roleLive]
       /\ \A s \in roleLive : \E i \in 1..n : listed[i] = s
  <3>1. listed \in Orders(roleLive) /\ IsFiniteSet(roleLive) BY <1>2
  <3>2. /\ listed \in [1..Cardinality(roleLive) -> roleLive]
        /\ \A s \in roleLive : \E i \in 1..Cardinality(roleLive) : listed[i] = s
    BY ONLY <3>1, OrderIsPermutation
  <3> QED BY <3>2
 <2> HIDE DEF order, n
 <2> QED BY <2>1, <2>2
<1>4. Len(order) = n /\ \A i \in 1..n : rolePosition'[order[i]] = n + 1 - i
 <2>1. Len(order) = n
  <3> HIDE DEF order, n
  <3> QED BY <1>3
 <2>2. DOMAIN order = 1..n BY <1>3
 <2>3. \A i \in DOMAIN order : rolePosition'[order[i]] = Len(order) + 1 - i BY ReorderPositions
 <2> QED BY <2>1, <2>2, <2>3
<1>5. rolePosition'[Everyone] = 0 BY ReorderPositions
<1>6. /\ \A s \in roleLive : rolePosition[s] \in Int
      /\ \A i, j \in 1..n : i < j => rolePosition[listed[i]] >= rolePosition[listed[j]]
      /\ \A i \in 1..n : rolePosition[listed[i]] >= Rank(a) => order[i] = listed[i]
 <2>1. \A s \in roleLive : rolePosition[s] \in Int BY RoleAssumption DEF RoleIInv, RolesTyped, AnyRole
 <2>2. DOMAIN order = 1..n /\ DOMAIN listed = 1..n BY <1>3
 <2> HIDE DEF order
 <2> QED BY <1>1, <2>1, <2>2 DEF Listed, KeepsSeniorRoles
<1>7. Rank(a) \in Int /\ \A s \in assigned[a] \cup {Everyone} : rolePosition[s] <= Rank(a) BY RankBounds
<1> HIDE DEF order, n
<1>8. PICK i \in 1..n : listed[i] = r BY <1>3
<1>9. order[i] = r /\ rolePosition'[r] = n + 1 - i BY <1>4, <1>6, <1>7, <1>8
<1>10. CASE x = Everyone
 <2>1. n \in Nat /\ i \in 1..n BY <1>3
 <2>2. rolePosition'[r] > 0 BY <1>9, <2>1
 <2> QED BY <1>5, <1>10, <2>2
<1>11. CASE x # Everyone
 <2>1. x \in roleLive BY <1>11 DEF RoleIInv, RolesTyped
 <2>2. PICK j \in 1..n : order[j] = x BY <1>3, <2>1
 <2>3. rolePosition'[x] = n + 1 - j BY <1>4, <2>2
 <2>4. ~(j < i)
  <3>1. SUFFICES ASSUME j < i PROVE FALSE OBVIOUS
  <3>2. rolePosition[listed[j]] >= rolePosition[listed[i]] BY <1>6, <3>1
  <3>3. rolePosition[listed[j]] >= Rank(a)
   <4>1. listed[j] \in roleLive BY <1>3
   <4>2. rolePosition[listed[j]] \in Int /\ rolePosition[r] \in Int BY <1>6, <4>1
   <4> QED BY <1>7, <1>8, <3>2, <4>2
  <3>4. order[j] = listed[j] BY <1>6, <3>3
  <3>5. rolePosition[x] >= rolePosition[r] BY <1>8, <2>2, <3>2, <3>4
  <3> QED BY <1>6, <1>7, <2>1, <3>5
 <2>5. j # i BY <1>6, <1>7, <1>9, <2>1, <2>2
 <2> QED BY <1>3, <1>9, <2>3, <2>4, <2>5
<1> QED BY <1>10, <1>11

\* A write on an up-to-date reading, by a member that is not the owner.
LEMMA WriteLeavesSeniorsAlone ==
    ASSUME RoleIInv, RoleIInv', NEW q \in RoleReq, RoleWriting(q), StillAllowed(q, roleReq[q]),
           NEW a \in RoleMember, a = RoleActorOf[q], a # RoleOwner
    PROVE  Untouched(a)
<1> DEFINE req == roleReq[q]
<1>0. /\ \A u \in RoleMember : assigned[u] \subseteq roleLive
      /\ \A s \in roleLive \cup {Everyone} : rolePosition[s] \in Int
      /\ roleLive \subseteq CustomRole /\ Everyone \notin roleLive
  BY RoleAssumption DEF RoleIInv, RolesTyped, AnyRole
<1>1. Rank(a) \in Int /\ \A s \in assigned[a] \cup {Everyone} : rolePosition[s] <= Rank(a) BY RankBounds
<1>2. CASE WriteCreate(q)
 <2>1. req.role \notin roleLive /\ req.role \in CustomRole
   BY <1>2 DEF StillAllowed, WriteCreate, RoleIInv, RoleRequestsSound, WellFormed
 <2>2. /\ \A s \in roleLive \cup {Everyone} :
              rolePosition'[s] = rolePosition[s] /\ roleGrants'[s] = roleGrants[s]
       /\ roleLive' = roleLive \cup {req.role} /\ assigned' = assigned
   BY <1>0, <1>2, <2>1, RoleAssumption DEF WriteCreate, RoleIInv, RolesTyped, AnyRole
 <2> HIDE DEF req
 <2>3. \A u \in RoleMember : Held(roleGrants', assigned'[u]) = Held(roleGrants, assigned[u])
   BY <1>0, <2>2 DEF Held
 <2> QED BY <1>0, <1>1, <2>2, <2>3, LeavesSeniorsAlone
<1>3. CASE WriteUpdate(q)
 <2>1. Rank(a) > rolePosition[req.role] /\ req.bits \ roleGrants[req.role] \subseteq ServerPermissions(Tables, a)
   BY <1>3, ManagesJuniors DEF StillAllowed, WriteUpdate
 <2>2. /\ \A s \in roleLive \cup {Everyone} :
              roleGrants'[s] = IF s = req.role THEN req.bits ELSE roleGrants[s]
       /\ roleLive' = roleLive /\ assigned' = assigned /\ rolePosition' = rolePosition
   BY <1>0, <1>3 DEF WriteUpdate, RoleIInv, RolesTyped, AnyRole
 <2> HIDE DEF req
 <2>3. \A u \in RoleMember : Held(roleGrants', assigned'[u])
              \subseteq Held(roleGrants, assigned[u]) \cup ServerPermissions(Tables, a)
   BY <1>0, <2>1, <2>2 DEF Held
 <2> QED BY <1>0, <1>1, <2>1, <2>2, <2>3, LeavesSeniorsAlone
<1>4. CASE WriteDelete(q)
 <2>1. Rank(a) > rolePosition[req.role] /\ req.role \in roleLive
   BY <1>4, ManagesJuniors DEF StillAllowed, WriteDelete
 <2>2. /\ \A s \in (roleLive \cup {Everyone}) \ {req.role} :
              rolePosition'[s] = rolePosition[s] /\ roleGrants'[s] = roleGrants[s]
       /\ roleLive' = roleLive \ {req.role}
       /\ \A u \in RoleMember : assigned'[u] = assigned[u] \ {req.role}
   BY <1>0, <1>4, RoleAssumption DEF WriteDelete, RoleIInv, RolesTyped, AnyRole
 <2> HIDE DEF req
 <2>3. \A u \in RoleMember : Held(roleGrants', assigned'[u]) \subseteq Held(roleGrants, assigned[u])
   BY <1>0, <2>1, <2>2 DEF Held
 <2>4. \A s \in roleLive : rolePosition[s] > Rank(a) => s # req.role BY <1>0, <1>1, <2>1
 <2>5. \A s \in roleLive : rolePosition[s] > Rank(a) =>
           \A x \in assigned'[a] \cup {Everyone} : rolePosition'[x] < rolePosition'[s]
   BY <1>0, <1>1, <2>1, <2>2, <2>4
 <2> QED BY <1>0, <2>2, <2>3, <2>4, <2>5, LeavesSeniorsAlone
<1>5. CASE WriteMember(q)
 <2>1. /\ req.member \in RoleMember /\ req.role \in roleLive
       /\ req.member # a /\ req.member # RoleOwner
       /\ Rank(a) > Rank(req.member) /\ Rank(a) > rolePosition[req.role]
       /\ req.op = "assign" => roleGrants[req.role] \subseteq ServerPermissions(Tables, a)
   BY <1>5, ManagesJuniors DEF StillAllowed, WriteMember, RoleIInv, RoleRequestsSound, WellFormed
 <2>2. /\ \A u \in RoleMember : u # req.member => assigned'[u] = assigned[u]
       /\ \/ assigned'[req.member] = assigned[req.member] \ {req.role}
          \/ req.op = "assign" /\ assigned'[req.member] = assigned[req.member] \cup {req.role}
       /\ roleLive' = roleLive /\ rolePosition' = rolePosition /\ roleGrants' = roleGrants
   BY <1>5, <2>1 DEF WriteMember, RoleIInv, RolesTyped
 <2> HIDE DEF req
 <2>3. ASSUME NEW u \in RoleMember
       PROVE  Held(roleGrants', assigned'[u])
                  \subseteq Held(roleGrants, assigned[u]) \cup ServerPermissions(Tables, a)
  <3>1. CASE u # req.member BY <2>2, <3>1 DEF Held
  <3>2. CASE u = req.member BY <2>1, <2>2, <3>2 DEF Held
  <3> QED BY <3>1, <3>2
 <2>4. \A s \in roleLive : rolePosition[s] > Rank(a) => s # req.role BY <1>0, <1>1, <2>1
 <2>5. \A u \in RoleMember : u = RoleOwner \/ Rank(u) >= Rank(a) => u # req.member BY <1>1, <2>1, RankBounds
 <2>6. \A s \in roleLive : \A u \in RoleMember :
           s # req.role => (s \in assigned'[u]) = (s \in assigned[u])
   BY <2>1, <2>2
 <2> QED BY <1>0, <1>1, <2>2, <2>3, <2>4, <2>5, <2>6, LeavesSeniorsAlone
<1>6. CASE WriteReorder(q)
 <2>1. roleLive' = roleLive /\ assigned' = assigned /\ roleGrants' = roleGrants BY <1>6 DEF WriteReorder
 <2>2. \A s \in roleLive : rolePosition[s] > Rank(a) =>
           \A x \in assigned'[a] \cup {Everyone} : rolePosition'[x] < rolePosition'[s]
   BY <1>6, <2>1, ReorderKeepsSeniors
 <2>3. \A u \in RoleMember : Held(roleGrants', assigned'[u]) = Held(roleGrants, assigned[u]) BY <2>1
 <2> QED BY <1>0, <2>1, <2>2, <2>3, LeavesSeniorsAlone
<1> QED BY <1>2, <1>3, <1>4, <1>5, <1>6 DEF RoleWriting

\* A request that ends, with a reading that was up to date, by a step of its own.
LEMMA StepUntouched ==
    ASSUME RoleIInv, RoleIInv', RoleNext, NEW q \in RoleReq, Writes(q), RoleActorOf[q] # RoleOwner
    PROVE  Untouched(RoleActorOf[q])
<1>1. PICK p \in RoleReq :
          \/ RoleStarting(p)
          \/ ~Idle(p) /\ RoleWriting(p) /\ Written(p)
          \/ ~Idle(p) /\ RoleRequestFails(p)
  BY RoleStepKinds
<1>2. roleReq \in [RoleReq -> RoleRequest] /\ RoleActorOf[q] \in RoleMember
  BY RoleAssumption DEF RoleIInv, RoleRequestsSound
<1>3. ~RoleStarting(p) BY <1>2 DEF RoleStarting, Started, Writes, Idle
<1>4. CASE ~Idle(p) /\ RoleWriting(p) /\ Written(p)
 <2>1. p = q BY <1>2, <1>4 DEF Written, Writes, Idle, RoleRequest
 <2>2. StillAllowed(q, roleReq[q]) BY DEF RoleIInv, RoleRequestsSound, Writes, Idle
 <2> QED BY <1>2, <1>4, <2>1, <2>2, WriteLeavesSeniorsAlone
<1>5. CASE ~Idle(p) /\ RoleRequestFails(p)
 <2>1. UNCHANGED roleTables BY <1>5 DEF RoleRequestFails
 <2>2. /\ \A u : Rank(u)' = Rank(u) /\ ServerPermissions(Tables, u)' = ServerPermissions(Tables, u)
       /\ \A u \in RoleMember : assigned[u] \subseteq roleLive
   BY <2>1 DEF roleTables, Rank, Tables, RoleIInv, RolesTyped
 <2> QED BY <2>1, <2>2 DEF Untouched, roleTables
<1> QED BY <1>1, <1>3, <1>4, <1>5

\* The roles that members have exist, at positions and with permissions that are
\* some: RoleService.delete takes a role from everybody in the step that ends it.
THEOREM MembersHaveLiveRoles ==
    RoleSpec => [](/\ rolePosition \in [AnyRole -> 0..MaxPosition]
                   /\ roleGrants \in [AnyRole -> SUBSET ALL_SERVER_PERMISSIONS]
                   /\ assigned \in [RoleMember -> SUBSET roleLive])
<1>1. RoleInit => RoleIInv BY RoleInitIInv
<1>2. RoleIInv /\ [RoleNext]_roleVars => RoleIInv' BY StepRoleIInv
<1>3. RoleIInv => /\ rolePosition \in [AnyRole -> 0..MaxPosition]
                  /\ roleGrants \in [AnyRole -> SUBSET ALL_SERVER_PERMISSIONS]
                  /\ assigned \in [RoleMember -> SUBSET roleLive]
  BY DEF RoleIInv, RolesTyped
<1> QED BY <1>1, <1>2, <1>3, PTL DEF RoleSpec

\* What a member writes about roles on an up-to-date reading leaves its seniors'
\* roles, and their rank above it, alone, and gives nobody a permission that it
\* lacks (RoleService with assertCanManageRole, canManageMember, canGrantPermissions).
THEOREM SeniorsStayUntouched == RoleSpec => SeniorsUntouched
<1> DEFINE A == \A q \in RoleReq :
           LET a == RoleActorOf[q] IN
           (Writes(q) /\ a # RoleOwner) =>
               /\ \A r \in roleLive : rolePosition[r] > Rank(a) =>
                      /\ r \in roleLive' /\ rolePosition'[r] > Rank(a)'
                      /\ roleGrants'[r] = roleGrants[r]
                      /\ \A u \in RoleMember : (r \in assigned'[u]) = (r \in assigned[u])
               /\ \A u \in RoleMember \ {a} : (u = RoleOwner \/ Rank(u) >= Rank(a)) =>
                      assigned'[u] = assigned[u] \cap roleLive'
               /\ \A u \in RoleMember :
                      ServerPermissions(Tables, u)' \ ServerPermissions(Tables, u)
                          \subseteq ServerPermissions(Tables, a)
<1>1. RoleInit => RoleIInv BY RoleInitIInv
<1>2. RoleIInv /\ [RoleNext]_roleVars => RoleIInv' BY StepRoleIInv
<1>3. RoleIInv /\ RoleIInv' /\ [RoleNext]_roleVars => [A]_roleVars BY StepUntouched DEF Untouched
<1>4. RoleSpec => [][A]_roleVars BY <1>1, <1>2, <1>3, PTL DEF RoleSpec
<1> QED BY <1>4 DEF SeniorsUntouched

------------------------------------------------------------
(* MemberContext                                                           *)

ReadRecord == [list : (SUBSET Membership) \cup {NotRead, NoFellow}, fresh : BOOLEAN, missed : BOOLEAN]
MenuRecord ==
    [user : Fellow \cup {NoFellow}, channel : BOOLEAN, ok : BOOLEAN, data : {"none", "current", "old"}]
OperationRecord ==
    [member : Membership \cup {NoFellow}, kind : {"none", "kick", "role"}, ok : BOOLEAN,
     phase : {"none", "sent", "served", "refused", "refresh"}, own : BOOLEAN]
Word ==
    [kind : {"reconcile", "permissions", "removed", "left", "occupancy", "gone"},
     of : Fellow \cup Membership \cup {NoFellow}]

MembersShaped ==
    /\ roster \subseteq Membership /\ banned \subseteq Membership /\ voicing \subseteq UsersOf(roster)
    /\ {inReach, beside, scoped, painted} \subseteq BOOLEAN
    /\ tidings \in Seq(Word)
    /\ reading \in ReadRecord /\ snapshotRef \in ReadRecord
    /\ knownMembers \subseteq Membership /\ membersShown \subseteq Membership
    /\ asking \in (SUBSET Fellow) \cup {NotRead, NoFellow}
    /\ occupancy \in [members : SUBSET Fellow, ready : BOOLEAN] /\ occupancyCurrent \in {"no", "accepted", "yes"}
    /\ entry \in MenuRecord /\ confirmation \in MenuRecord /\ operation \in OperationRecord

\* Without the server and its socket nothing is read, nothing is heard and nothing may be done.
OutOfReach ==
    /\ ~inReach => tidings = <<>>
    /\ ~(scoped /\ inReach) =>
        /\ snapshotRef = NoReading /\ reading = NoReading /\ asking = NoFellow /\ ~occupancy.ready
        /\ ~entry.ok /\ ~confirmation.ok /\ ~operation.ok

\* A word still to be heard has a list read anew, or marks it.
Outdates(ts, list) ==
    \E i \in 1 .. Len(ts) :
        ts[i].kind \in {"reconcile", "permissions"} \/ (ts[i].kind = "removed" /\ ts[i].of \in list)

\* A list is of the present members, or what changed since is still to be heard.
Informed(r, ts, members) ==
    /\ r.list = NoFellow => r = NoReading
    /\ r.list = NotRead => r.fresh \/ Outdates(ts, {})
    /\ r.list \in SUBSET Membership =>
        /\ r.fresh => r.list = members
        /\ r.fresh \/ r.missed \/ Outdates(ts, r.list)
ListsInformed ==
    /\ Informed(reading, tidings, roster) /\ Informed(snapshotRef, tidings, roster)
    /\ snapshotRef.list # NotRead
    /\ snapshotRef.list # NoFellow => snapshotRef.list = knownMembers /\ membersShown = knownMembers

\* The same of the voice channel.
Requeues(ts) == \E i \in 1 .. Len(ts) : ts[i].kind = "occupancy"
VoicesInformed ==
    /\ occupancy.ready => occupancy.members = voicing \/ Requeues(tidings)
    /\ asking \in SUBSET Fellow => asking = voicing \/ Requeues(tidings)
    /\ occupancy.ready => occupancyCurrent # "no"
    /\ occupancyCurrent = "accepted" => ~painted

\* What is rendered is what may stay; of the two menus one at most may act.
MenusStay ==
    /\ ~(entry.ok /\ confirmation.ok)
    /\ painted =>
        /\ \A menu \in {entry, confirmation} \ {NoMenu} : menu.ok /\ InChannel(menu)
        /\ entry # NoMenu /\ snapshotRef # NoReading => entry.user \in UsersOf(snapshotRef.list)

MemberIInv == MembersShaped /\ OutOfReach /\ ListsInformed /\ VoicesInformed /\ MenusStay

------------------------------------------------------------
(* What is read, and what is told                                          *)

LEMMA Readings ==
    /\ NoReading \in ReadRecord /\ NoReading.list = NoFellow
    /\ FreshReading \in ReadRecord /\ FreshReading.list = NotRead /\ FreshReading.fresh
    /\ \A ts, members : Informed(NoReading, ts, members) /\ Informed(FreshReading, ts, members)
<1>1. NoReading \in ReadRecord /\ NoReading.list = NoFellow BY DEF NoReading, ReadRecord
<1>2. FreshReading \in ReadRecord /\ FreshReading.list = NotRead /\ FreshReading.fresh
  BY DEF FreshReading, NoReading, ReadRecord
<1> QED BY <1>1, <1>2, MemberContextAssumption DEF Informed

LEMMA Before ==
    ASSUME NEW r \in ReadRecord, NEW list \in SUBSET Membership
    PROVE  /\ ReadBefore(r) \in ReadRecord /\ ReadBefore(r).list = r.list /\ ReadBefore(r).missed = r.missed
           /\ ~ReadBefore(r).fresh
           /\ r = NoReading => ReadBefore(r) = NoReading
           /\ [ReadBefore(r) EXCEPT !.list = list] \in ReadRecord
           /\ [ReadBefore(r) EXCEPT !.list = list].list = list /\ ~[ReadBefore(r) EXCEPT !.list = list].fresh
<1>1. ReadBefore(NoReading) = NoReading
 <2>1. ReadBefore(NoReading) = [list |-> NoFellow, fresh |-> FALSE, missed |-> FALSE]
   BY Readings DEF ReadBefore, NoReading, ReadRecord
 <2> QED BY <2>1 DEF NoReading
<1>2. PICK b \in ReadRecord : b = ReadBefore(r) BY DEF ReadBefore, ReadRecord
<1>3. b.list = r.list /\ b.missed = r.missed /\ ~b.fresh BY <1>2 DEF ReadBefore, ReadRecord
<1>4. [b EXCEPT !.list = list] \in ReadRecord /\ [b EXCEPT !.list = list].list = list
      /\ [b EXCEPT !.list = list].fresh = b.fresh
  BY DEF ReadRecord
<1> QED BY <1>1, <1>2, <1>3, <1>4

LEMMA NothingTold == \A list : ~Outdates(<<>>, list)
BY DEF Outdates

LEMMA OutdatesMore ==
    ASSUME NEW ts, NEW a, NEW b, a \subseteq b, Outdates(ts, a)
    PROVE  Outdates(ts, b)
BY DEF Outdates

LEMMA TailIs ==
    ASSUME NEW ts \in Seq(Word), ts # <<>>
    PROVE  /\ Tail(ts) \in Seq(Word) /\ Head(ts) \in Word /\ Head(ts) = ts[1] /\ Len(Tail(ts)) = Len(ts) - 1
           /\ Len(ts) \in Nat \ {0} /\ \A i \in 1 .. Len(ts) - 1 : Tail(ts)[i] = ts[i + 1]
<1>1. Len(ts) \in Nat \ {0} /\ Head(ts) = ts[1] /\ Head(ts) \in Word BY EmptySeq, HeadTailProperties
<1> QED BY <1>1, HeadTailProperties

LEMMA HeardOfList ==
    ASSUME NEW ts \in Seq(Word), ts # <<>>, NEW list, Outdates(ts, list),
           Head(ts).kind \notin {"reconcile", "permissions"},
           Head(ts).kind = "removed" => Head(ts).of \notin list
    PROVE  Outdates(Tail(ts), list)
<1>1. PICK i \in 1 .. Len(ts) :
        ts[i].kind \in {"reconcile", "permissions"} \/ (ts[i].kind = "removed" /\ ts[i].of \in list)
  BY DEF Outdates
<1>2. i # 1 /\ i - 1 \in 1 .. Len(Tail(ts)) /\ Tail(ts)[i - 1] = ts[i] BY <1>1, TailIs
<1> QED BY <1>1, <1>2 DEF Outdates

LEMMA HeardOfVoice ==
    ASSUME NEW ts \in Seq(Word), ts # <<>>, Requeues(ts), Head(ts).kind # "occupancy"
    PROVE  Requeues(Tail(ts))
<1>1. PICK i \in 1 .. Len(ts) : ts[i].kind = "occupancy" BY DEF Requeues
<1>2. i # 1 /\ i - 1 \in 1 .. Len(Tail(ts)) /\ Tail(ts)[i - 1] = ts[i] BY <1>1, TailIs
<1> QED BY <1>1, <1>2 DEF Requeues

LEMMA HeardInformed ==
    ASSUME NEW ts \in Seq(Word), ts # <<>>, NEW r \in ReadRecord, NEW members, Informed(r, ts, members),
           Head(ts).kind \notin {"reconcile", "permissions"},
           Head(ts).kind = "removed" => r.missed \/ r.list \notin SUBSET Membership \/ Head(ts).of \notin r.list
    PROVE  Informed(r, Tail(ts), members)
<1>1. r.list = NotRead => r.fresh \/ Outdates(Tail(ts), {}) BY HeardOfList DEF Informed
<1>2. r.list \in SUBSET Membership => r.fresh \/ r.missed \/ Outdates(Tail(ts), r.list) BY HeardOfList DEF Informed
<1> QED BY <1>1, <1>2 DEF Informed

\* The words of a change.
LEMMA WordsOf ==
    ASSUME NEW kind \in {"reconcile", "permissions", "removed", "left", "occupancy", "gone"},
           NEW x \in Fellow \cup Membership \cup {NoFellow}
    PROVE  WordOf(kind, x) \in Word /\ WordOf(kind, x).kind = kind /\ WordOf(kind, x).of = x
BY DEF WordOf, Word

LEMMA LastWord ==
    ASSUME NEW a \in Seq(Word), NEW w \in Word
    PROVE  /\ a \o <<w>> \in Seq(Word) /\ Len(a \o <<w>>) = Len(a) + 1 /\ (a \o <<w>>)[Len(a) + 1] = w
           /\ Len(a) + 1 \in 1 .. Len(a \o <<w>>)
           /\ \A i \in 1 .. Len(a) : (a \o <<w>>)[i] = a[i] /\ i \in 1 .. Len(a \o <<w>>)
<1>1. <<w>> \in Seq(Word) /\ Len(<<w>>) = 1 /\ <<w>>[1] = w OBVIOUS
<1>2. a \o <<w>> \in Seq(Word) /\ Len(a) \in Nat /\ Len(a \o <<w>>) = Len(a) + 1
      /\ \A i \in 1 .. Len(a) + 1 : (a \o <<w>>)[i] = IF i <= Len(a) THEN a[i] ELSE <<w>>[i - Len(a)]
  BY <1>1, ConcatProperties
<1> QED BY <1>1, <1>2

LEMMA LeftWords ==
    ASSUME NEW u \in Fellow
    PROVE  LeftVoice(u) \in Seq(Word) /\ (u \in voicing => Requeues(LeftVoice(u)))
<1>1. CASE u \notin voicing BY <1>1 DEF LeftVoice
<1>2. CASE u \in voicing
 <2>1. PICK a \in Seq(Word) : a = IF beside THEN <<WordOf("left", u)>> ELSE <<>>
  <3>1. PICK w \in Word : w = WordOf("left", u) BY WordsOf
  <3>2. <<w>> \in Seq(Word) /\ <<>> \in Seq(Word) OBVIOUS
  <3> QED BY <3>1, <3>2
 <2>2. PICK w \in Word : w = WordOf("occupancy", NoFellow) /\ w.kind = "occupancy" BY WordsOf
 <2>3. LeftVoice(u) = a \o <<w>> BY <1>2, <2>1, <2>2 DEF LeftVoice
 <2> QED BY <2>2, <2>3, LastWord DEF Requeues
<1> QED BY <1>1, <1>2

------------------------------------------------------------
(* The server                                                              *)

\* What a change of the server does to the lists being read, and says of it.
ReadStep(words) ==
    /\ snapshotRef' \in {snapshotRef, ReadBefore(snapshotRef)}
    /\ \/ reading' \in {reading, ReadBefore(reading)}
       \/ reading.list = NotRead /\ reading' = [ReadBefore(reading) EXCEPT !.list = roster]
    /\ roster' # roster => snapshotRef' = ReadBefore(snapshotRef) /\ (reading'.list = NotRead \/ ~reading'.fresh)
    /\ \/ snapshotRef' = snapshotRef /\ reading' = reading
       \/ Outdates(words, {})
       \/ (reading'.list = NotRead => reading' = reading) /\ \E m \in roster : Outdates(words, {m})

WorldStep(words) ==
    /\ tidings = <<>> /\ words \in Seq(Word) /\ ToldTab(words)
    /\ UNCHANGED <<UntouchedOfMembers, entry, confirmation, painted>>
    /\ operation' \in OperationRecord /\ operation'.ok = operation.ok
    /\ roster' \subseteq Membership /\ banned' \subseteq Membership /\ voicing' \subseteq UsersOf(roster')
    /\ ReadStep(words)
    /\ asking' \in {asking, IF asking = NotRead THEN voicing ELSE asking}
    /\ voicing' = voicing \/ Requeues(words)

\* A list read before the change, or after it.
LEMMA WorldInforms ==
    ASSUME NEW words \in Seq(Word), NEW r \in ReadRecord, Informed(r, <<>>, roster), roster \subseteq Membership,
           NEW s,
           s \in {r, ReadBefore(r)} \/ (r.list = NotRead /\ s = [ReadBefore(r) EXCEPT !.list = roster]),
           roster' # roster => s.list = NotRead \/ ~s.fresh,
           s = r \/ Outdates(words, {}) \/ ((s.list = NotRead => s = r) /\ \E m \in roster : Outdates(words, {m}))
    PROVE  s \in ReadRecord /\ Informed(s, words, roster')
<1>0. roster \in SUBSET Membership OBVIOUS
<1>1. PICK b \in ReadRecord, c \in ReadRecord :
        /\ b.list = r.list /\ b.missed = r.missed /\ ~b.fresh /\ (r = NoReading => b = NoReading)
        /\ c.list = roster /\ ~c.fresh
        /\ s = r \/ s = b \/ (r.list = NotRead /\ s = c)
 <2>1. PICK b \in ReadRecord : b = ReadBefore(r) BY <1>0, Before
 <2>2. PICK c \in ReadRecord : c = [b EXCEPT !.list = roster] BY <1>0 DEF ReadRecord
 <2>3. b.list = r.list /\ b.missed = r.missed /\ ~b.fresh /\ (r = NoReading => b = NoReading)
   BY <1>0, <2>1, Before
 <2>4. c.list = roster /\ ~c.fresh BY <2>2, <2>3 DEF ReadRecord
 <2> QED BY <2>1, <2>2, <2>3, <2>4
<1>2. r.list = NotRead => r.fresh BY NothingTold DEF Informed
<1>3. r.list \in SUBSET Membership => (r.fresh => r.list = roster) /\ (r.fresh \/ r.missed)
  BY NothingTold DEF Informed
<1>4. s.list = NoFellow => s = NoReading BY <1>0, <1>1, MemberContextAssumption DEF Informed
<1>8. s.list = NotRead => s \in {r, b} /\ r.list = NotRead BY <1>0, <1>1, MemberContextAssumption
<1>5. s.list = NotRead => s.fresh \/ Outdates(words, {}) BY <1>2, <1>8
<1>9. s.list \in SUBSET Membership =>
        \/ s \in {r, b} /\ s.list = r.list /\ r.list \in SUBSET Membership
        \/ s = c /\ s.list = roster /\ ~s.fresh
  BY <1>1
<1>6. s.list \in SUBSET Membership => (s.fresh => s.list = roster') BY <1>1, <1>3, <1>9, MemberContextAssumption
<1>7. s.list \in SUBSET Membership => s.fresh \/ s.missed \/ Outdates(words, s.list)
 <2> SUFFICES ASSUME s.list \in SUBSET Membership, ~s.fresh, ~s.missed
              PROVE  Outdates(words, s.list)
   OBVIOUS
 <2>2. s # r BY <1>3
 <2>1. s.list = roster BY <1>1, <1>3, <1>9, <2>2
 <2>3. CASE Outdates(words, {}) BY <2>3, OutdatesMore
 <2>4. ASSUME NEW m \in roster, Outdates(words, {m})
       PROVE  Outdates(words, s.list)
   BY <2>1, <2>4, OutdatesMore
 <2> QED BY <2>2, <2>3, <2>4
<1> QED BY <1>1, <1>4, <1>5, <1>6, <1>7 DEF Informed

LEMMA VoicesAreUsers ==
    ASSUME MembersShaped
    PROVE  voicing \subseteq Fellow
BY MemberContextAssumption DEF MembersShaped, UsersOf

LEMMA WorldKeeps ==
    ASSUME MemberIInv, NEW words, WorldStep(words)
    PROVE  MemberIInv'
<1>1. /\ tidings = <<>> /\ words \in Seq(Word) /\ tidings' = IF inReach THEN <<>> \o words ELSE <<>>
      /\ UNCHANGED <<beside, inReach, scoped, knownMembers, membersShown, occupancy, occupancyCurrent, entry,
                     confirmation, painted>>
      /\ operation' \in OperationRecord /\ operation'.ok = operation.ok
  BY DEF WorldStep, ToldTab, UntouchedOfMembers
<1>2. tidings' = IF inReach THEN words ELSE <<>> BY <1>1, ConcatEmptySeq
<1>3. reading \in ReadRecord /\ snapshotRef \in ReadRecord /\ roster \subseteq Membership
  BY DEF MemberIInv, MembersShaped
<1>4. /\ reading' \in ReadRecord /\ Informed(reading', words, roster')
      /\ snapshotRef' \in ReadRecord /\ Informed(snapshotRef', words, roster')
 <2>1. Informed(reading, <<>>, roster) /\ Informed(snapshotRef, <<>>, roster)
   BY <1>1 DEF MemberIInv, ListsInformed
 <2>2. reading' \in ReadRecord /\ Informed(reading', words, roster')
   BY <1>1, <1>3, <2>1, WorldInforms DEF WorldStep, ReadStep
 <2>3. snapshotRef.list # NotRead /\ snapshotRef'.list = snapshotRef.list
   BY <1>3, Before DEF MemberIInv, ListsInformed, WorldStep, ReadStep
 <2>4. roster' # roster => ~snapshotRef'.fresh BY <1>3, Before DEF WorldStep, ReadStep
 <2>5. snapshotRef' = snapshotRef \/ Outdates(words, {}) \/ \E m \in roster : Outdates(words, {m})
   BY DEF WorldStep, ReadStep
 <2>6. snapshotRef' \in ReadRecord /\ Informed(snapshotRef', words, roster')
   BY <1>1, <1>3, <2>1, <2>3, <2>4, <2>5, WorldInforms DEF WorldStep, ReadStep
 <2> QED BY <2>2, <2>6
<1>5. MembersShaped' BY <1>1, <1>2, <1>4, VoicesAreUsers DEF MemberIInv, MembersShaped, WorldStep, UsersOf
<1>6. ~(scoped /\ inReach) => snapshotRef' = NoReading /\ reading' = NoReading /\ asking' = NoFellow
  BY <1>3, Before, Readings, MemberContextAssumption DEF MemberIInv, OutOfReach, WorldStep, ReadStep
<1>7. OutOfReach' BY <1>1, <1>2, <1>6 DEF MemberIInv, OutOfReach
<1>8. ListsInformed'
 <2>1. Informed(reading', tidings', roster') /\ Informed(snapshotRef', tidings', roster')
   BY <1>2, <1>4, <1>6, Readings
 <2>2. snapshotRef'.list = snapshotRef.list BY <1>3, Before DEF WorldStep, ReadStep
 <2> QED BY <1>1, <2>1, <2>2 DEF MemberIInv, ListsInformed
<1>9. VoicesInformed'
 <2>1. ~Requeues(tidings) BY <1>1 DEF Requeues
 <2>2. asking' \in SUBSET Fellow => asking' = voicing \/ Requeues(tidings')
   BY <1>6, <2>1, MemberContextAssumption DEF MemberIInv, VoicesInformed, WorldStep
 <2>3. voicing' = voicing \/ Requeues(tidings') \/ ~inReach BY <1>2 DEF WorldStep
 <2>4. ~inReach => ~occupancy.ready /\ asking' \notin SUBSET Fellow
   BY <1>6, MemberContextAssumption DEF MemberIInv, OutOfReach
 <2> QED BY <1>1, <2>1, <2>2, <2>3, <2>4 DEF MemberIInv, VoicesInformed
<1>10. MenusStay'
 <2>1. snapshotRef'.list = snapshotRef.list /\ (snapshotRef' # NoReading => snapshotRef # NoReading)
   BY <1>3, Before DEF WorldStep, ReadStep
 <2> QED BY <1>1, <2>1 DEF MemberIInv, MenusStay, InChannel
<1> QED BY <1>5, <1>7, <1>8, <1>9, <1>10 DEF MemberIInv

LEMMA RosterStep ==
    ASSUME MemberIInv, tidings = <<>>, NEW m \in Membership, NEW w \in Word,
           \/ w.kind = "reconcile" /\ Joined(m, <<w>>)
           \/ m \in roster /\ (w.kind = "reconcile" \/ (w.kind = "removed" /\ w.of = m)) /\ Removed(m, <<w>>),
           banned' \subseteq Membership, UNCHANGED <<UntouchedOfMembers, entry, confirmation, painted>>,
           operation' \in OperationRecord, operation'.ok = operation.ok
    PROVE  MemberIInv'
<1>0. FellowOf[m] \in Fellow BY MemberContextAssumption
<1>1. PICK left \in Seq(Word) :
        /\ (Joined(m, <<w>>) /\ left = <<>>) \/ (Removed(m, <<w>>) /\ left = LeftVoice(FellowOf[m]))
        /\ w.kind = "removed" => m \in roster /\ w.of = m
        /\ voicing' = voicing \/ Requeues(left)
 <2>1. CASE w.kind = "reconcile" /\ Joined(m, <<w>>)
  <3>1. <<>> \in Seq(Word) /\ voicing' = voicing BY <2>1 DEF Joined
  <3> QED BY <2>1, <3>1
 <2>2. CASE Removed(m, <<w>>) /\ m \in roster /\ (w.kind = "reconcile" \/ (w.kind = "removed" /\ w.of = m))
  <3>1. FellowOf[m] \notin voicing => voicing' = voicing BY <2>2 DEF Removed
  <3> QED BY <1>0, <2>2, <3>1, LeftWords
 <2> QED BY <2>1, <2>2
<1>3. PICK words \in Seq(Word) : words = left \o <<w>> BY LastWord
<1>4. Requeues(left) => Requeues(words) BY <1>3, LastWord DEF Requeues
<1>5. w.kind = "reconcile" => Outdates(words, {}) BY <1>3, LastWord DEF Outdates
<1>6. w.kind = "removed" => Outdates(words, {m}) BY <1>1, <1>3, LastWord DEF Outdates
<1>7. ToldTab(words) /\ MembersOutdated /\ AskedBefore
 <2>1. left = <<>> => words = <<w>>
  <3>1. <<w>> \in Seq(Word) OBVIOUS
  <3> QED BY <1>3, <3>1, ConcatEmptySeq
 <2> QED BY <1>1, <1>3, <2>1 DEF Joined, Removed
<1>8. roster' \subseteq Membership /\ voicing' \subseteq UsersOf(roster')
  BY <1>1 DEF Joined, Removed, MemberIInv, MembersShaped, UsersOf
<1>9. ReadStep(words)
 <2>0. reading \in ReadRecord /\ roster \in SUBSET Membership BY DEF MemberIInv, MembersShaped
 <2>1. snapshotRef' = ReadBefore(snapshotRef) BY <1>7 DEF MembersOutdated
 <2>2. CASE reading.list = NotRead
  <3>1. reading' \in {reading, [ReadBefore(reading) EXCEPT !.list = roster]} BY <1>7, <2>2 DEF MembersOutdated
  <3>2. reading'.list = NotRead \/ ~reading'.fresh BY <2>0, <2>2, <3>1, Before
  <3>3. reading'.list = NotRead => reading' = reading
   <4>1. [ReadBefore(reading) EXCEPT !.list = roster].list = roster BY <2>0, Before
   <4> QED BY <2>0, <3>1, <4>1, MemberContextAssumption
  <3> QED BY <1>5, <1>6, <2>1, <2>2, <3>1, <3>2, <3>3 DEF ReadStep
 <2>3. CASE reading.list # NotRead
  <3>1. reading' = ReadBefore(reading) BY <1>7, <2>3 DEF MembersOutdated
  <3>2. ~reading'.fresh /\ reading'.list # NotRead BY <2>0, <2>3, <3>1, Before
  <3> QED BY <1>5, <1>6, <2>1, <3>1, <3>2 DEF ReadStep
 <2> QED BY <2>2, <2>3
<1>10. WorldStep(words) BY <1>1, <1>3, <1>4, <1>7, <1>8, <1>9 DEF WorldStep, AskedBefore
<1> QED BY <1>10, WorldKeeps

LEMMA ShownUnchanged ==
    ASSUME MemberIInv, UNCHANGED menuVars
    PROVE  UNCHANGED <<entry, confirmation>> /\ operation' \in OperationRecord /\ operation'.ok = operation.ok
BY DEF MemberIInv, MembersShaped, menuVars

LEMMA RosterKeeps ==
    ASSUME MemberIInv, NEW m \in Membership, FellowJoins(m) \/ FellowLeaves(m) \/ FellowOusted(m)
    PROVE  MemberIInv'
<1>1. tidings = <<>> /\ UNCHANGED <<UntouchedOfMembers, entry, confirmation, painted>>
      /\ operation' \in OperationRecord /\ operation'.ok = operation.ok
  BY ShownUnchanged DEF FellowJoins, FellowLeaves, FellowOusted
<1>2. banned' \subseteq Membership
 <2>1. banned' \in {banned, banned \cup {m}} BY DEF FellowJoins, FellowLeaves, FellowOusted, Ousted
 <2> QED BY <2>1 DEF MemberIInv, MembersShaped
<1>3. PICK w \in Word : w = WordOf("reconcile", NoFellow) /\ w.kind = "reconcile" BY WordsOf
<1>4. PICK v \in Word : v = WordOf("removed", m) /\ v.kind = "removed" /\ v.of = m BY WordsOf
<1>5. CASE FellowJoins(m) BY <1>1, <1>2, <1>3, <1>5, RosterStep DEF FellowJoins
<1>6. CASE FellowLeaves(m) BY <1>1, <1>2, <1>3, <1>6, RosterStep DEF FellowLeaves
<1>7. CASE FellowOusted(m) BY <1>1, <1>2, <1>4, <1>7, RosterStep DEF FellowOusted, Ousted
<1> QED BY <1>5, <1>6, <1>7

\* A ban ends, and no one is told.
LEMMA Overlooked ==
    ASSUME NEW r \in ReadRecord, NEW list \in SUBSET Membership, NEW members
    PROVE  /\ Overlooks(r, list) \in ReadRecord /\ Overlooks(r, list).list = list
           /\ Informed(Overlooks(r, list), <<>>, members)
<1>1. PICK o \in ReadRecord : o = Overlooks(r, list) BY DEF Overlooks, ReadRecord
<1>2. o.list = list /\ ~o.fresh /\ o.missed BY <1>1 DEF Overlooks, ReadRecord
<1> QED BY <1>1, <1>2, MemberContextAssumption DEF Informed

LEMMA UnbanKeeps ==
    ASSUME MemberIInv, NEW m \in Membership, FellowUnbanned(m)
    PROVE  MemberIInv'
<1>1. /\ tidings = <<>> /\ banned' = banned \ {m} /\ roster' = roster \cup {m}
      /\ UNCHANGED <<tidings, voicing, asking, beside, inReach, scoped, knownMembers, membersShown, occupancy,
                     occupancyCurrent, entry, confirmation, operation, painted>>
  BY DEF FellowUnbanned, UntouchedOfMembers, menuVars
<1>2. /\ reading \in ReadRecord /\ snapshotRef \in ReadRecord /\ roster \in SUBSET Membership
      /\ Informed(reading, <<>>, roster) /\ Informed(snapshotRef, <<>>, roster) /\ snapshotRef.list # NotRead
  BY <1>1 DEF MemberIInv, MembersShaped, ListsInformed
<1>3. reading' \in ReadRecord /\ Informed(reading', <<>>, roster') /\ (reading = NoReading => reading' = NoReading)
 <2>1. CASE reading = NoReading BY <2>1, Readings DEF FellowUnbanned
 <2>2. CASE reading # NoReading /\ reading.list = NotRead
  <3>1. reading.fresh BY <1>2, <2>2, NothingTold DEF Informed
  <3>2. Informed(reading, <<>>, roster') BY <2>2, <3>1, MemberContextAssumption DEF Informed
  <3> QED BY <1>2, <2>2, <3>2, Overlooked DEF FellowUnbanned
 <2>3. CASE reading # NoReading /\ reading.list # NotRead
  <3>1. reading.list \in SUBSET Membership BY <1>2, <2>3 DEF Informed, ReadRecord
  <3> QED BY <1>2, <2>3, <3>1, Overlooked DEF FellowUnbanned
 <2> QED BY <2>1, <2>2, <2>3
<1>4. /\ snapshotRef' \in ReadRecord /\ Informed(snapshotRef', <<>>, roster') /\ snapshotRef'.list = snapshotRef.list
      /\ (snapshotRef' = NoReading <=> snapshotRef = NoReading)
 <2>1. CASE snapshotRef = NoReading BY <2>1, Readings DEF FellowUnbanned
 <2>2. CASE snapshotRef # NoReading
  <3>1. snapshotRef.list \in SUBSET Membership BY <1>2, <2>2 DEF Informed, ReadRecord
  <3>2. snapshotRef' = Overlooks(snapshotRef, snapshotRef.list) BY <2>2 DEF FellowUnbanned
  <3> QED BY <1>2, <2>2, <3>1, <3>2, Overlooked, Readings, MemberContextAssumption
 <2> QED BY <2>1, <2>2
<1>5. MembersShaped' BY <1>1, <1>3, <1>4 DEF MemberIInv, MembersShaped, UsersOf
<1>6. OutOfReach' BY <1>1, <1>3, <1>4 DEF MemberIInv, OutOfReach
<1>7. ListsInformed' BY <1>1, <1>3, <1>4 DEF MemberIInv, ListsInformed
<1>8. VoicesInformed' BY <1>1 DEF MemberIInv, VoicesInformed
<1>9. MenusStay' BY <1>1, <1>4 DEF MemberIInv, MenusStay, InChannel
<1> QED BY <1>5, <1>6, <1>7, <1>8, <1>9 DEF MemberIInv

\* Their permissions change, by others or by the action asked for.
LEMMA PermissionsStep ==
    ASSUME MemberIInv, tidings = <<>>, PermissionsOutdated,
           ToldTab(<<WordOf("permissions", NoFellow), WordOf("occupancy", NoFellow)>>),
           UNCHANGED <<roster, banned, voicing, asking, UntouchedOfMembers, entry, confirmation, painted>>,
           operation' \in OperationRecord, operation'.ok = operation.ok
    PROVE  MemberIInv'
<1>0. PICK w1 \in Word, w2 \in Word : /\ w1 = WordOf("permissions", NoFellow) /\ w1.kind = "permissions"
                                      /\ w2 = WordOf("occupancy", NoFellow)
  BY WordsOf
<1>5. <<w1, w2>> \in Seq(Word) /\ Len(<<w1, w2>>) = 2 /\ <<w1, w2>>[1] = w1 OBVIOUS
<1>1. PICK words \in Seq(Word) : words = <<w1, w2>> /\ Len(words) = 2 /\ words[1] = w1 BY <1>5
<1>2. Outdates(words, {}) BY <1>0, <1>1 DEF Outdates
<1>3. ReadStep(words) BY <1>2 DEF ReadStep, PermissionsOutdated
<1>4. WorldStep(words) BY <1>0, <1>1, <1>3 DEF WorldStep, MemberIInv, MembersShaped
<1> QED BY <1>4, WorldKeeps

LEMMA PermissionsKeep ==
    ASSUME MemberIInv, PermissionsChange
    PROVE  MemberIInv'
BY PermissionsStep, ShownUnchanged DEF PermissionsChange

LEMMA VoiceKeeps ==
    ASSUME MemberIInv, (\E u \in Fellow : EntersVoice(u) \/ LeavesVoice(u)) \/ LosesServer
    PROVE  MemberIInv'
<1>1. tidings = <<>> /\ UNCHANGED <<roster, banned, reading, snapshotRef, UntouchedOfMembers, entry, confirmation, painted>>
      /\ operation' \in OperationRecord /\ operation'.ok = operation.ok
  BY ShownUnchanged DEF EntersVoice, LeavesVoice, LosesServer
<1>2. voicing \subseteq UsersOf(roster) /\ roster \subseteq Membership /\ banned \subseteq Membership
      /\ UsersOf(roster)' = UsersOf(roster)
  BY <1>1 DEF MemberIInv, MembersShaped, UsersOf
<1>3. ASSUME NEW u \in Fellow, EntersVoice(u)
      PROVE  MemberIInv'
 <2>0. PICK w \in Word : w = WordOf("occupancy", NoFellow) /\ w.kind = "occupancy" BY WordsOf
 <2>4. <<w>> \in Seq(Word) /\ Len(<<w>>) = 1 /\ <<w>>[1] = w OBVIOUS
 <2>1. PICK words \in Seq(Word) : words = <<w>> /\ Len(words) = 1 /\ words[1] = w BY <2>4
 <2>2. Requeues(words) BY <2>0, <2>1 DEF Requeues
 <2>3. WorldStep(words) BY <1>1, <1>2, <1>3, <2>0, <2>1, <2>2 DEF WorldStep, EntersVoice, ReadStep, AskedBefore
 <2> QED BY <2>3, WorldKeeps
<1>4. ASSUME NEW u \in Fellow, LeavesVoice(u)
      PROVE  MemberIInv'
 <2>1. WorldStep(LeftVoice(u)) BY <1>1, <1>2, <1>4, LeftWords DEF WorldStep, LeavesVoice, ReadStep, AskedBefore
 <2> QED BY <2>1, WorldKeeps
<1>5. CASE LosesServer
 <2>0. PICK w \in Word : w = WordOf("gone", NoFellow) BY WordsOf
 <2>3. <<w>> \in Seq(Word) OBVIOUS
 <2>1. PICK words \in Seq(Word) : words = <<WordOf("gone", NoFellow)>> BY <2>0, <2>3
 <2>2. WorldStep(words) BY <1>1, <1>2, <1>5, <2>1 DEF WorldStep, LosesServer, ReadStep
 <2> QED BY <2>2, WorldKeeps
<1> QED BY <1>3, <1>4, <1>5

LEMMA ServeOperationKeeps ==
    ASSUME MemberIInv, ServeOperation
    PROVE  MemberIInv'
<1>1. PICK phase \in {"served", "refused"} : operation' = [operation EXCEPT !.phase = phase]
  BY DEF ServeOperation
<1>2. operation' \in OperationRecord /\ operation'.ok = operation.ok
  BY <1>1 DEF MemberIInv, MembersShaped, OperationRecord
<1>3. tidings = <<>> /\ UNCHANGED <<UntouchedOfMembers, entry, confirmation, painted>> BY DEF ServeOperation
<1>4. CASE operation.member \in roster /\ Ousted(operation.member)
 <2>1. operation.member \in Membership BY <1>4 DEF MemberIInv, MembersShaped
 <2>2. PICK w \in Word :
         w = WordOf("removed", operation.member) /\ w.kind = "removed" /\ w.of = operation.member
   BY <2>1, WordsOf
 <2>3. banned' \subseteq Membership BY <1>4, <2>1 DEF Ousted, MemberIInv, MembersShaped
 <2> QED BY <1>2, <1>3, <1>4, <2>1, <2>2, <2>3, RosterStep DEF Ousted
<1>5. CASE /\ PermissionsOutdated /\ ToldTab(<<WordOf("permissions", NoFellow), WordOf("occupancy", NoFellow)>>)
           /\ UNCHANGED <<roster, banned, voicing, asking>>
  BY <1>2, <1>3, <1>5, PermissionsStep
<1>6. CASE UNCHANGED <<roster, banned, voicing, asking, tidings, reading, snapshotRef>>
 <2>1. ToldTab(<<>>) BY <1>3, <1>6 DEF ToldTab
 <2>2. WorldStep(<<>>) BY <1>2, <1>3, <1>6, <2>1 DEF WorldStep, ReadStep, MemberIInv, MembersShaped
 <2> QED BY <2>2, WorldKeeps
<1> QED BY <1>4, <1>5, <1>6 DEF ServeOperation

------------------------------------------------------------
(* The tab                                                                 *)

LEMMA MenuMayNotAct ==
    ASSUME NEW menu \in MenuRecord
    PROVE  /\ Former(menu) \in MenuRecord /\ ~Former(menu).ok
           /\ NoMenu \in MenuRecord /\ ~NoMenu.ok
BY DEF Former, MenuRecord, NoMenu

LEMMA Invalidated ==
    ASSUME MemberIInv, InvalidateMenu
    PROVE  /\ entry' \in MenuRecord /\ confirmation' \in MenuRecord /\ operation' \in OperationRecord
           /\ ~entry'.ok /\ ~confirmation'.ok /\ ~operation'.ok
<1>1. entry \in MenuRecord /\ confirmation \in MenuRecord /\ operation \in OperationRecord
  BY DEF MemberIInv, MembersShaped
<1>2. operation' \in OperationRecord /\ ~operation'.ok BY <1>1 DEF InvalidateMenu, OperationRecord
<1> QED BY <1>1, <1>2, MenuMayNotAct DEF InvalidateMenu

LEMMA Refreshed ==
    ASSUME NEW reach \in BOOLEAN, RefreshMembers(reach)
    PROVE  /\ snapshotRef' = NoReading /\ snapshotRef' \in ReadRecord /\ reading' \in ReadRecord
           /\ ~reach => reading' = NoReading
           /\ ListsInformed'
<1>1. snapshotRef' = NoReading /\ reading' = IF reach THEN FreshReading ELSE NoReading BY DEF RefreshMembers
<1> QED BY <1>1, Readings, MemberContextAssumption DEF ListsInformed

LEMMA Requeued ==
    ASSUME NEW members \in SUBSET Fellow, QueueRefresh(members)
    PROVE  /\ asking' \in {NotRead, NoFellow} /\ occupancy' \in [members : SUBSET Fellow, ready : BOOLEAN]
           /\ ~occupancy'.ready /\ occupancyCurrent' = "no" /\ VoicesInformed'
<1>1. asking' \in {NotRead, NoFellow} /\ occupancyCurrent' = "no" /\ occupancy' = [members |-> members, ready |-> FALSE]
  BY DEF QueueRefresh, AsksAnew
<1> QED BY <1>1, MemberContextAssumption DEF VoicesInformed

LEMMA HearKeeps ==
    ASSUME MemberIInv, HearTidings
    PROVE  MemberIInv'
<1> DEFINE word == Head(tidings)
<1>1. /\ tidings # <<>> /\ tidings \in Seq(Word) /\ tidings' = Tail(tidings) /\ tidings' \in Seq(Word) /\ word \in Word
      /\ UNCHANGED <<roster, banned, voicing, beside, inReach, knownMembers>> /\ inReach
  BY TailIs DEF HearTidings, worldFacts, MemberIInv, MembersShaped, OutOfReach
<1>2. /\ Informed(reading, tidings, roster) /\ Informed(snapshotRef, tidings, roster)
      /\ reading \in ReadRecord /\ snapshotRef \in ReadRecord
  BY DEF MemberIInv, MembersShaped, ListsInformed
<1>4. word.kind # "occupancy" /\ UNCHANGED occupancyVars /\ (painted' => painted) => VoicesInformed'
  BY <1>1, HeardOfVoice DEF MemberIInv, VoicesInformed, occupancyVars
<1>5. CASE ~scoped /\ UNCHANGED <<scoped, reading, snapshotRef, membersShown, occupancyVars, menuVars, painted>>
 <2>1. snapshotRef = NoReading /\ reading = NoReading /\ asking = NoFellow /\ ~occupancy.ready
   BY <1>5 DEF MemberIInv, OutOfReach
 <2>2. ListsInformed' BY <1>5, <2>1, Readings, MemberContextAssumption DEF ListsInformed
 <2>3. VoicesInformed' BY <1>5, <2>1, MemberContextAssumption DEF MemberIInv, VoicesInformed, occupancyVars
 <2> QED
   BY <1>1, <1>5, <2>2, <2>3
   DEF MemberIInv, MembersShaped, OutOfReach, MenusStay, InChannel, occupancyVars, menuVars
<1>6. CASE /\ scoped /\ word.kind = "reconcile" /\ InvalidateMenu /\ RefreshMembers(inReach) /\ painted' = FALSE
           /\ UNCHANGED <<scoped, membersShown, occupancyVars>>
 <2>1. VoicesInformed' BY <1>4, <1>6
 <2> QED
   BY <1>1, <1>6, <2>1, Invalidated, Refreshed
   DEF MemberIInv, MembersShaped, OutOfReach, MenusStay, occupancyVars
<1>7. CASE /\ scoped /\ word.kind = "permissions" /\ InvalidateMenu /\ RefreshMembers(inReach) /\ QueueRefresh({})
           /\ painted' = FALSE /\ UNCHANGED <<scoped, membersShown>>
 <2>1. asking' \in {NotRead, NoFellow} /\ occupancy' \in [members : SUBSET Fellow, ready : BOOLEAN]
       /\ ~occupancy'.ready /\ occupancyCurrent' = "no" /\ VoicesInformed'
   BY <1>7, Requeued
 <2> QED BY <1>1, <1>7, <2>1, Invalidated, Refreshed DEF MemberIInv, MembersShaped, OutOfReach, MenusStay
<1>8. CASE scoped /\ word.kind = "removed" /\ RemovalHeard(word.of) /\ UNCHANGED <<scoped, occupancyVars>>
 <2>1. CASE /\ InvalidateMenu /\ RefreshMembers(inReach) /\ membersShown' = membersShown \ {word.of}
            /\ painted' = FALSE
  <3>1. VoicesInformed' BY <1>4, <1>8, <2>1
  <3> QED
    BY <1>1, <1>8, <2>1, <3>1, Invalidated, Refreshed
    DEF MemberIInv, MembersShaped, OutOfReach, MenusStay, occupancyVars
 <2>2. CASE /\ word.of \notin knownMembers /\ reading' = [reading EXCEPT !.missed = @ \/ word.of \in ReadList(reading)]
            /\ UNCHANGED <<snapshotRef, membersShown, menuVars, painted>>
  <3>1. PICK missed \in BOOLEAN :
          missed = (reading.missed \/ word.of \in ReadList(reading))
    BY <1>2 DEF ReadRecord
  <3>2. reading' = [reading EXCEPT !.missed = missed] BY <1>2, <2>2, <3>1 DEF ReadRecord
  <3>3. reading' \in ReadRecord /\ reading'.list = reading.list /\ reading'.fresh = reading.fresh
        /\ reading'.missed = missed
    BY <1>2, <3>2 DEF ReadRecord
  <3>4. reading = NoReading => reading' = NoReading
   <4>0. ReadList(NoReading) = {} BY Readings DEF ReadList
   <4> SUFFICES ASSUME reading = NoReading PROVE reading' = NoReading OBVIOUS
   <4>1. reading'.list = NoFellow /\ reading'.fresh = FALSE /\ reading'.missed = FALSE
     BY <3>1, <3>3, <4>0 DEF NoReading
   <4>2. reading' = [list |-> NoFellow, fresh |-> FALSE, missed |-> FALSE] BY <3>3, <4>1 DEF ReadRecord
   <4> QED BY <4>2 DEF NoReading
  <3>5. Informed(reading', tidings, roster) BY <1>2, <3>1, <3>3, <3>4 DEF Informed
  <3>6. reading'.list \in SUBSET Membership /\ word.of \in reading'.list => reading'.missed
    BY <3>1, <3>3, MemberContextAssumption DEF ReadList
  <3>7. Informed(reading', Tail(tidings), roster) BY <1>1, <1>8, <3>3, <3>5, <3>6, HeardInformed
  <3>8. Informed(snapshotRef, Tail(tidings), roster)
   <4>1. snapshotRef.list \in SUBSET Membership => word.of \notin snapshotRef.list
     BY <2>2, MemberContextAssumption DEF MemberIInv, ListsInformed
   <4> QED BY <1>1, <1>2, <1>8, <4>1, HeardInformed
  <3>9. ListsInformed' BY <1>1, <2>2, <3>7, <3>8 DEF MemberIInv, ListsInformed
  <3>10. VoicesInformed' BY <1>4, <1>8, <2>2
  <3> QED
    BY <1>1, <1>8, <2>2, <3>3, <3>4, <3>9, <3>10
    DEF MemberIInv, MembersShaped, OutOfReach, MenusStay, InChannel, occupancyVars, menuVars
 <2> QED BY <1>8, <2>1, <2>2 DEF RemovalHeard
<1>9. CASE /\ scoped /\ word.kind \in {"left", "occupancy"} /\ painted' = FALSE
           /\ QueueRefresh(occupancy.members \ (IF word.kind = "left" THEN {word.of} ELSE {}))
           /\ UNCHANGED <<scoped, reading, snapshotRef, membersShown, menuVars>>
 <2>1. occupancy.members \ (IF word.kind = "left" THEN {word.of} ELSE {}) \in SUBSET Fellow
   BY DEF MemberIInv, MembersShaped
 <2>2. asking' \in {NotRead, NoFellow} /\ occupancy' \in [members : SUBSET Fellow, ready : BOOLEAN]
       /\ ~occupancy'.ready /\ occupancyCurrent' = "no" /\ VoicesInformed'
   BY <1>9, <2>1, Requeued
 <2>3. Informed(reading, Tail(tidings), roster) /\ Informed(snapshotRef, Tail(tidings), roster)
   BY <1>1, <1>2, <1>9, HeardInformed
 <2>4. ListsInformed' BY <1>1, <1>9, <2>3 DEF MemberIInv, ListsInformed
 <2> QED BY <1>1, <1>9, <2>2, <2>4 DEF MemberIInv, MembersShaped, OutOfReach, MenusStay, menuVars
<1>10. CASE /\ scoped' = FALSE /\ InvalidateMenu /\ RefreshMembers(FALSE)
            /\ asking' = NoFellow /\ occupancy' = NothingHeard /\ occupancyCurrent' = "no" /\ painted' = FALSE
            /\ UNCHANGED membersShown
 <2>1. NothingHeard \in [members : SUBSET Fellow, ready : BOOLEAN] /\ ~NothingHeard.ready BY DEF NothingHeard
 <2>2. VoicesInformed' BY <1>10, <2>1, MemberContextAssumption DEF VoicesInformed
 <2> QED BY <1>1, <1>10, <2>1, <2>2, Invalidated, Refreshed DEF MemberIInv, MembersShaped, OutOfReach, MenusStay
<1> QED BY <1>5, <1>6, <1>7, <1>8, <1>9, <1>10 DEF HearTidings

LEMMA BeginsAnewKeeps ==
    ASSUME MemberIInv, ScopeChanges \/ ReachChanges
    PROVE  MemberIInv'
<1>1. PICK open \in BOOLEAN, reach \in BOOLEAN : BeginsAnew(open, reach) /\ (tidings' = <<>> \/ (tidings' = tidings /\ reach = inReach))
  BY DEF ScopeChanges, ReachChanges, MemberIInv, MembersShaped
<1>7. <<>> \in Seq(Word) /\ tidings \in Seq(Word) /\ (~inReach => tidings = <<>>)
  BY DEF MemberIInv, MembersShaped, OutOfReach
<1>2. tidings' \in Seq(Word) /\ (~reach => tidings' = <<>>) BY <1>1, <1>7
<1>3. InvalidateMenu /\ RefreshMembers(open /\ reach) /\ scoped' = open /\ inReach' = reach
      /\ asking' = (IF open /\ reach THEN NotRead ELSE NoFellow) /\ occupancy' = NothingHeard
      /\ occupancyCurrent' = "no" /\ painted' = FALSE /\ UNCHANGED <<roster, banned, voicing, beside, knownMembers, membersShown>>
  BY <1>1 DEF BeginsAnew, AsksAnew, worldFacts
<1>4. NothingHeard \in [members : SUBSET Fellow, ready : BOOLEAN] /\ ~NothingHeard.ready BY DEF NothingHeard
<1>5. VoicesInformed' BY <1>3, <1>4, MemberContextAssumption DEF VoicesInformed
<1>6. (open /\ reach) \in BOOLEAN OBVIOUS
<1> QED
  BY <1>2, <1>3, <1>4, <1>5, <1>6, Invalidated, Refreshed DEF MemberIInv, MembersShaped, OutOfReach, MenusStay

LEMMA ReadAnsweredKeeps ==
    ASSUME MemberIInv, ReadAnswered
    PROVE  MemberIInv'
<1>1. /\ reading # NoReading /\ reading' = NoReading /\ painted' = FALSE
      /\ UNCHANGED <<roster, banned, voicing, beside, tidings, inReach, scoped, asking, occupancy, occupancyCurrent, entry,
                     confirmation>>
  BY DEF ReadAnswered, worldFacts, occupancyVars
<1>2. operation' \in OperationRecord /\ (operation'.ok => operation.ok)
  BY DEF ReadAnswered, MemberIInv, MembersShaped, NoOperation, OperationRecord
<1>3. scoped /\ inReach /\ reading \in ReadRecord /\ roster \subseteq Membership
  BY <1>1 DEF MemberIInv, OutOfReach, MembersShaped
<1>4. VoicesInformed' /\ MenusStay' BY <1>1 DEF MemberIInv, VoicesInformed, MenusStay
<1>5. PICK list \in SUBSET Membership : list = IF reading.list = NotRead THEN roster ELSE reading.list
 <2>1. reading.list # NoFellow BY <1>1 DEF MemberIInv, ListsInformed, Informed
 <2> QED BY <1>3, <2>1 DEF ReadRecord
<1>6. CASE snapshotRef' = [reading EXCEPT !.list = list] /\ knownMembers' = list /\ membersShown' = list
 <2>1. snapshotRef' \in ReadRecord /\ snapshotRef'.list = list /\ snapshotRef'.fresh = reading.fresh
       /\ snapshotRef'.missed = reading.missed
   BY <1>3, <1>6 DEF ReadRecord
 <2>2. reading.fresh => list = roster BY <1>3, <1>5 DEF MemberIInv, ListsInformed, Informed
 <2>3. reading.fresh \/ reading.missed \/ Outdates(tidings, list)
   BY <1>3, <1>5, OutdatesMore DEF MemberIInv, ListsInformed, Informed
 <2>4. Informed(snapshotRef', tidings', roster') BY <1>1, <2>1, <2>2, <2>3, MemberContextAssumption DEF Informed
 <2>5. ListsInformed' BY <1>1, <1>6, <2>1, <2>4, Readings, MemberContextAssumption DEF ListsInformed
 <2> QED BY <1>1, <1>2, <1>3, <1>4, <1>6, <2>1, <2>5, Readings DEF MemberIInv, MembersShaped, OutOfReach
<1>7. CASE UNCHANGED <<snapshotRef, knownMembers, membersShown>>
 <2>1. ListsInformed' BY <1>1, <1>7, Readings DEF MemberIInv, ListsInformed
 <2> QED BY <1>1, <1>2, <1>3, <1>4, <1>7, <2>1, Readings DEF MemberIInv, MembersShaped, OutOfReach
<1> QED BY <1>5, <1>6, <1>7 DEF ReadAnswered

LEMMA OccupancyAnsweredKeeps ==
    ASSUME MemberIInv, OccupancyAnswered
    PROVE  MemberIInv'
<1>1. /\ asking # NoFellow /\ asking' = NoFellow /\ painted' = FALSE
      /\ UNCHANGED <<roster, banned, voicing, beside, tidings, inReach, scoped, reading, snapshotRef, knownMembers, membersShown,
                     entry, confirmation, operation>>
  BY DEF OccupancyAnswered, worldFacts, listVarsOfMembers, menuVars
<1>2. scoped /\ inReach BY <1>1 DEF MemberIInv, OutOfReach
<1>3. PICK members \in SUBSET Fellow, ready \in BOOLEAN :
        /\ occupancy' = [members |-> members, ready |-> ready]
        /\ ready => occupancyCurrent' = "accepted" /\ members = IF asking = NotRead THEN voicing ELSE asking
        /\ occupancyCurrent' \in {"no", "accepted"}
 <2>1. CASE /\ occupancy' = [members |-> IF asking = NotRead THEN voicing ELSE asking, ready |-> TRUE]
            /\ occupancyCurrent' = "accepted"
  <3>1. (IF asking = NotRead THEN voicing ELSE asking) \in SUBSET Fellow
    BY <1>1, VoicesAreUsers DEF MemberIInv, MembersShaped
  <3> QED BY <2>1, <3>1
 <2>2. CASE occupancy' = NothingHeard /\ occupancyCurrent' = "no" BY <2>2 DEF NothingHeard
 <2> QED BY <2>1, <2>2 DEF OccupancyAnswered
<1>4. occupancy' \in [members : SUBSET Fellow, ready : BOOLEAN] /\ occupancy'.members = members /\ occupancy'.ready = ready
  BY <1>3
<1>5. VoicesInformed' BY <1>1, <1>3, <1>4, MemberContextAssumption DEF MemberIInv, VoicesInformed, MembersShaped
<1> QED BY <1>1, <1>2, <1>3, <1>4, <1>5 DEF MemberIInv, MembersShaped, OutOfReach, ListsInformed, MenusStay

LEMMA PaintKeeps ==
    ASSUME MemberIInv, Paint
    PROVE  MemberIInv'
<1> DEFINE showing == IF entry.ok THEN entry ELSE NoMenu
           asked == IF confirmation.ok THEN confirmation ELSE NoMenu
           context == IF showing # NoMenu THEN showing ELSE asked
<1>1. /\ painted' /\ occupancyCurrent' = (IF occupancyCurrent = "accepted" THEN "yes" ELSE occupancyCurrent)
      /\ UNCHANGED <<roster, banned, voicing, beside, tidings, inReach, scoped, knownMembers, membersShown, asking, occupancy>>
  BY DEF Paint, worldFacts, MemberIInv, MembersShaped
<1>2. VoicesInformed' /\ occupancyCurrent' \in {"no", "accepted", "yes"}
  BY <1>1 DEF MemberIInv, VoicesInformed, MembersShaped
<1>3. entry \in MenuRecord /\ confirmation \in MenuRecord /\ ~(entry.ok /\ confirmation.ok)
  BY DEF MemberIInv, MembersShaped, MenusStay
<1>4. CASE /\ entry' = NoMenu /\ confirmation' = NoMenu /\ snapshotRef' = NoReading /\ reading' = NoReading
           /\ operation' = [operation EXCEPT !.ok = FALSE, !.own = FALSE]
 <2>1. operation' \in OperationRecord /\ ~operation'.ok BY <1>4 DEF MemberIInv, MembersShaped, OperationRecord
 <2>2. ListsInformed' BY <1>4, Readings, MemberContextAssumption DEF ListsInformed
 <2>3. MenusStay' BY <1>3, <1>4, MenuMayNotAct DEF MenusStay
 <2> QED
   BY <1>1, <1>2, <1>3, <1>4, <2>1, <2>2, <2>3, MenuMayNotAct, Readings DEF MemberIInv, MembersShaped, OutOfReach
<1>5. CASE /\ context # NoMenu => StaysOpen(context)
           /\ entry' = IF showing = NoMenu THEN NoMenu
                       ELSE [showing EXCEPT !.data = IF snapshotRef = NoReading THEN "none" ELSE "current"]
           /\ confirmation' = asked /\ UNCHANGED <<operation, snapshotRef, reading>>
 <2>1. ListsInformed' BY <1>1, <1>5 DEF MemberIInv, ListsInformed
 <2>2. CASE entry.ok
  <3>1. entry # NoMenu /\ confirmation' = NoMenu BY <1>3, <1>5, <2>2, MenuMayNotAct
  <3>2. PICK data \in {"none", "current"} : entry' = [entry EXCEPT !.data = data] BY <1>5, <2>2, <3>1
  <3>3. entry' \in MenuRecord /\ entry'.ok /\ entry'.user = entry.user /\ entry'.channel = entry.channel
    BY <1>3, <2>2, <3>2 DEF MenuRecord
  <3>4. StaysOpen(entry) BY <1>5, <2>2, <3>1
  <3>5. MenusStay' BY <1>1, <1>3, <1>5, <3>1, <3>3, <3>4, MenuMayNotAct DEF MenusStay, StaysOpen, InChannel
  <3> QED
    BY <1>1, <1>2, <1>3, <1>5, <2>1, <2>2, <3>1, <3>3, <3>5, MenuMayNotAct DEF MemberIInv, MembersShaped, OutOfReach
 <2>3. CASE ~entry.ok
  <3>1. entry' = NoMenu /\ confirmation' = asked BY <1>5, <2>3
  <3>2. asked # NoMenu => asked = confirmation /\ confirmation.ok /\ StaysOpen(confirmation) BY <1>5, <2>3
  <3>3. asked \in MenuRecord /\ (asked.ok => confirmation.ok) BY <1>3, MenuMayNotAct
  <3>4. MenusStay' BY <1>1, <1>5, <3>1, <3>2, MenuMayNotAct, <1>3 DEF MenusStay, StaysOpen, InChannel
  <3> QED
    BY <1>1, <1>2, <1>3, <1>5, <2>1, <3>1, <3>3, <3>4, MenuMayNotAct DEF MemberIInv, MembersShaped, OutOfReach
 <2> QED BY <2>2, <2>3
<1> QED BY <1>4, <1>5 DEF Paint

\* What is done with a menu leaves the rest, unless the lists are read again.
MenuStep ==
    /\ UNCHANGED <<roster, banned, voicing, beside, tidings, inReach, scoped, knownMembers, membersShown, asking, occupancy,
                   occupancyCurrent>>
    /\ entry' \in MenuRecord /\ confirmation' \in MenuRecord /\ operation' \in OperationRecord
    /\ entry'.ok \/ confirmation'.ok \/ operation'.ok => scoped /\ inReach
    /\ MenusStay'
    /\ \/ UNCHANGED <<reading, snapshotRef, painted>>
       \/ scoped /\ inReach /\ RefreshMembers(inReach) /\ painted' = FALSE

LEMMA MenuStepKeeps ==
    ASSUME MemberIInv, MenuStep
    PROVE  MemberIInv'
<1>1. /\ UNCHANGED <<roster, banned, voicing, beside, tidings, inReach, scoped, knownMembers, membersShown, asking, occupancy,
                     occupancyCurrent>>
      /\ entry' \in MenuRecord /\ confirmation' \in MenuRecord /\ operation' \in OperationRecord
      /\ (entry'.ok \/ confirmation'.ok \/ operation'.ok => scoped /\ inReach) /\ MenusStay'
  BY DEF MenuStep
<1>2. CASE UNCHANGED <<reading, snapshotRef, painted>>
 <2>1. VoicesInformed' /\ ListsInformed' BY <1>1, <1>2 DEF MemberIInv, VoicesInformed, ListsInformed
 <2> QED BY <1>1, <1>2, <2>1 DEF MemberIInv, MembersShaped, OutOfReach
<1>3. CASE scoped /\ inReach /\ RefreshMembers(inReach) /\ painted' = FALSE
 <2>1. VoicesInformed' BY <1>1, <1>3 DEF MemberIInv, VoicesInformed
 <2>2. inReach \in BOOLEAN BY DEF MemberIInv, MembersShaped
 <2> QED BY <1>1, <1>3, <2>1, <2>2, Refreshed DEF MemberIInv, MembersShaped, OutOfReach
<1> QED BY <1>2, <1>3 DEF MenuStep

LEMMA MenusOpen ==
    ASSUME MemberIInv, NEW u \in Fellow, NEW origin \in {"member", "voice"}, OpensMenu(u, origin)
    PROVE  MemberIInv'
<1>1. PICK channel \in BOOLEAN : entry' = [user |-> u, ok |-> TRUE, data |-> "none", channel |-> channel]
 <2>1. (origin = "voice" \/ (occupancy.ready /\ u \in occupancy.members)) \in BOOLEAN OBVIOUS
 <2> QED BY <2>1 DEF OpensMenu
<1>2. entry' \in MenuRecord BY <1>1 DEF MenuRecord
<1>3. confirmation' \in MenuRecord /\ ~confirmation'.ok
  BY MenuMayNotAct DEF OpensMenu, MemberIInv, MembersShaped
<1>4. scoped /\ inReach /\ RefreshMembers(inReach) /\ painted' = FALSE /\ operation' = operation
      /\ UNCHANGED <<roster, banned, voicing, beside, tidings, inReach, scoped, knownMembers, membersShown, asking, occupancy,
                     occupancyCurrent>>
  BY DEF OpensMenu, worldFacts, occupancyVars, MemberIInv, MembersShaped
<1>5. MenuStep BY <1>2, <1>3, <1>4 DEF MenuStep, MenusStay, MemberIInv, MembersShaped
<1> QED BY <1>5, MenuStepKeeps

LEMMA ActionsKeep ==
    ASSUME MemberIInv, Invoke("kick") \/ Invoke("role") \/ ConfirmAction \/ ClosesMenu
    PROVE  MemberIInv'
<1>1. UNCHANGED <<roster, banned, voicing, beside, tidings, inReach, scoped, knownMembers, membersShown, asking, occupancy,
                  occupancyCurrent, reading, snapshotRef, painted>>
  BY DEF Invoke, ConfirmAction, ClosesMenu, worldFacts, listVarsOfMembers, occupancyVars
<1>2. /\ entry \in MenuRecord /\ confirmation \in MenuRecord /\ operation \in OperationRecord
      /\ entry.ok \/ confirmation.ok \/ operation.ok => scoped /\ inReach
  BY DEF MemberIInv, MembersShaped, OutOfReach
<1>3. ASSUME NEW menu \in MenuRecord, NEW kind \in {"kick", "role"}, StartsOperation(menu, kind)
      PROVE  operation' \in OperationRecord
  BY <1>3 DEF StartsOperation, OperationRecord, MenuRecord
<1>4. operation' \in OperationRecord /\ (operation'.ok => scoped /\ inReach)
  BY <1>2, <1>3 DEF Invoke, ConfirmAction, ClosesMenu, Dispatches
<1>5. /\ \/ entry' \in {entry, NoMenu} /\ confirmation' \in {confirmation, NoMenu}
         \/ entry' = NoMenu /\ confirmation' = entry
  BY DEF Invoke, ConfirmAction, ClosesMenu
<1>6. /\ entry' \in MenuRecord /\ confirmation' \in MenuRecord
      /\ entry'.ok \/ confirmation'.ok => scoped /\ inReach
      /\ ~(entry'.ok /\ confirmation'.ok)
  BY <1>2, <1>5, MenuMayNotAct DEF MemberIInv, MenusStay
<1>7. MenusStay' BY <1>1, <1>2, <1>5, <1>6, MenuMayNotAct DEF MemberIInv, MenusStay, InChannel
<1>8. MenuStep BY <1>1, <1>4, <1>6, <1>7 DEF MenuStep
<1> QED BY <1>8, MenuStepKeeps

LEMMA OperationsEnd ==
    ASSUME MemberIInv, RetriesMenu \/ OperationAnswered \/ OperationEnds
    PROVE  MemberIInv'
<1>1. UNCHANGED <<roster, banned, voicing, beside, tidings, inReach, scoped, knownMembers, membersShown, asking, occupancy,
                  occupancyCurrent>>
  BY DEF RetriesMenu, OperationAnswered, OperationEnds, worldFacts, listVarsOfMembers, occupancyVars
<1>2. /\ entry \in MenuRecord /\ confirmation \in MenuRecord /\ operation \in OperationRecord
      /\ entry.ok \/ confirmation.ok \/ operation.ok => scoped /\ inReach
  BY DEF MemberIInv, MembersShaped, OutOfReach
<1>3. NoOperation \in OperationRecord /\ ~NoOperation.ok BY DEF NoOperation, OperationRecord
<1>4. CASE RetriesMenu
 <2>1. scoped /\ inReach /\ RefreshMembers(inReach) /\ painted' = FALSE /\ UNCHANGED <<entry, confirmation, operation>>
   BY <1>2, <1>4 DEF RetriesMenu, menuVars
 <2>2. MenuStep BY <1>1, <1>2, <2>1 DEF MenuStep, MenusStay, MemberIInv
 <2> QED BY <2>2, MenuStepKeeps
<1>5. CASE /\ operation.ok /\ entry' = Former(entry) /\ confirmation' = Former(confirmation) /\ RefreshMembers(inReach)
           /\ operation' = [operation EXCEPT !.ok = FALSE, !.phase = "refresh", !.own = TRUE] /\ painted' = FALSE
 <2>1. operation' \in OperationRecord /\ ~operation'.ok BY <1>2, <1>5 DEF OperationRecord
 <2>2. MenuStep BY <1>1, <1>2, <1>5, <2>1, MenuMayNotAct DEF MenuStep, MenusStay
 <2> QED BY <2>2, MenuStepKeeps
<1>6. CASE operation' = NoOperation /\ UNCHANGED <<entry, confirmation, reading, snapshotRef, painted>>
 <2>1. MenusStay' BY <1>1, <1>6 DEF MemberIInv, MenusStay, InChannel
 <2>2. MenuStep BY <1>1, <1>2, <1>3, <1>6, <2>1 DEF MenuStep
 <2> QED BY <2>2, MenuStepKeeps
<1> QED BY <1>4, <1>5, <1>6 DEF OperationAnswered, OperationEnds, listVarsOfMembers

\* The invariant is inductive.
THEOREM MembersInductive == MemberContextSpec => []MemberIInv
<1>1. MemberContextInit => MemberIInv
 <2> SUFFICES ASSUME MemberContextInit PROVE MemberIInv OBVIOUS
 <2>1. NothingHeard \in [members : SUBSET Fellow, ready : BOOLEAN] /\ ~NothingHeard.ready
       /\ NoOperation \in OperationRecord /\ ~NoOperation.ok /\ <<>> \in Seq(Word)
   BY DEF NothingHeard, NoOperation, OperationRecord
 <2>2. MembersShaped
  <3>1. NoMenu \in MenuRecord BY DEF NoMenu, MenuRecord
  <3> QED BY <2>1, <3>1, Readings DEF MemberContextInit, MembersShaped
 <2>3. ListsInformed /\ VoicesInformed
   BY <2>1, Readings, MemberContextAssumption DEF MemberContextInit, ListsInformed, VoicesInformed
 <2>4. OutOfReach /\ MenusStay BY <2>1 DEF MemberContextInit, OutOfReach, MenusStay, NoMenu
 <2> QED BY <2>2, <2>3, <2>4 DEF MemberIInv
<1>2. ASSUME MemberIInv, [MemberContextNext]_memberVars
      PROVE  MemberIInv'
 <2>1. CASE UNCHANGED memberVars
   BY <1>2, <2>1 DEF memberVars, worldFacts, listVarsOfMembers, occupancyVars, menuVars, MemberIInv, MembersShaped,
      OutOfReach, ListsInformed, VoicesInformed, MenusStay, InChannel
 <2>2. CASE MemberContextNext
   BY <1>2, <2>2, RosterKeeps, UnbanKeeps, VoiceKeeps, MenusOpen, PermissionsKeep, ServeOperationKeeps, HearKeeps,
      BeginsAnewKeeps, ReadAnsweredKeeps, OccupancyAnsweredKeeps, PaintKeeps, ActionsKeep, OperationsEnd
   DEF MemberContextNext
 <2> QED BY <1>2, <2>1, <2>2
<1> QED BY <1>1, <1>2, PTL DEF MemberContextSpec

\* A tab acts on a list that is as new as all it has heard (useMemberContext.ts).
THEOREM ActionsAreInformedAlways == MemberContextSpec => []ActionsAreInformed
<1>1. MemberIInv => ActionsAreInformed
 <2> SUFFICES ASSUME MemberIInv, snapshotRef # NoReading, ~snapshotRef.fresh, ~snapshotRef.missed, tidings = <<>>
              PROVE  FALSE
   BY DEF ActionsAreInformed
 <2>1. snapshotRef.list \in SUBSET Membership BY DEF MemberIInv, MembersShaped, ListsInformed, Informed, ReadRecord
 <2> QED BY <2>1, NothingTold DEF MemberIInv, ListsInformed, Informed
<1> QED BY <1>1, MembersInductive, PTL

\* When all is answered, the members and the voices shown are those of the server, and a menu is
\* open only over one who is there (useMemberContext.ts, useVoiceOccupancy.ts).
THEOREM MembersSettleAlways == MemberContextSpec => []MembersSettle
<1>1. MemberIInv => MembersSettle
 <2> SUFFICES ASSUME MemberIInv, MembersQuiet
              PROVE  /\ snapshotRef # NoReading /\ ~snapshotRef.missed => membersShown = roster
                     /\ occupancy.ready => occupancy.members = voicing /\ occupancyCurrent = "yes"
                     /\ \A menu \in {entry, confirmation} \ {NoMenu} : menu.ok /\ InChannel(menu)
                     /\ entry # NoMenu /\ snapshotRef # NoReading => entry.user \in UsersOf(snapshotRef.list)
   BY DEF MembersSettle
 <2>1. tidings = <<>> /\ painted /\ ~Requeues(tidings) BY DEF MembersQuiet, Requeues
 <2>2. snapshotRef # NoReading /\ ~snapshotRef.missed => membersShown = roster
  <3> SUFFICES ASSUME snapshotRef # NoReading, ~snapshotRef.missed PROVE membersShown = roster OBVIOUS
  <3>1. snapshotRef.list \in SUBSET Membership BY DEF MemberIInv, MembersShaped, ListsInformed, Informed, ReadRecord
  <3>2. snapshotRef.list = roster BY <2>1, <3>1, NothingTold DEF MemberIInv, ListsInformed, Informed
  <3> QED BY <3>1, <3>2, MemberContextAssumption DEF MemberIInv, ListsInformed
 <2>3. occupancy.ready => occupancy.members = voicing /\ occupancyCurrent = "yes"
   BY <2>1 DEF MemberIInv, VoicesInformed, MembersShaped
 <2> QED BY <2>1, <2>2, <2>3 DEF MemberIInv, MenusStay
<1> QED BY <1>1, MembersInductive, PTL
=============================================================================
