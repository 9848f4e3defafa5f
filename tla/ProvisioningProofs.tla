------------------------- MODULE ProvisioningProofs -------------------------
(***************************************************************************)
(* Theorems about Provisioning, for any number of users, houses, commands, *)
(* requests and faults.                                                    *)
(***************************************************************************)
EXTENDS Provisioning, TLAPS

\* A command past its lookup of the house has one, and keeps it: houses are only
\* added, so a house that was the one of its name is found again or none is.
HouseKept ==
  \A c \in Commands :
    /\ command[c].house # 0 => command[c].house \in Matches(Opts(c))
    /\ command[c].pc \in {"confirm", "lookup", "create", "upsert", "done"} =>
         command[c].house # 0
    /\ command[c].pc = "upsert" => Opts(c).email \in accounts

\* Every membership was chosen by an operator.
MembersChosen == \A e \in Emails, h \in Nat : <<e, h>> \in members => h \in Chosen(e)

\* What was granted when a request came is still granted; a request that got
\* past the users table found its user there.
RequestsSound ==
  \A r \in Requests :
    /\ \A h \in request[r].since : <<request[r].email, h>> \in granted
    /\ request[r].pc = "served" => request[r].house \in Chosen(request[r].email)
    /\ request[r].pc = "refused" => request[r].since = {} \/ request[r].error

IInv == TypeOK /\ HouseKept /\ UserHasHouse /\ MembersChosen /\ RequestsSound

-----------------------------------------------------------------------------
LEMMA InitIInv == Init => IInv
  <1> SUFFICES ASSUME Init PROVE IInv
    OBVIOUS
  <1>1. TypeOK
    <2>1. command \in [Commands -> CommandState]
      BY DEF Init, CommandState
    <2>2. request \in [Requests -> RequestState]
      <3>1. \A e \in Emails : [pc |-> "idle", email |-> e, house |-> 0, since |-> {},
                             error |-> FALSE] \in RequestState
        BY DEF RequestState
      <3> QED
        BY <3>1 DEF Init
    <2>3. houses \in Seq(Names)
      BY DEF Init
    <2> QED
      BY <2>1, <2>2, <2>3, BoundsAssumption DEF Init, TypeOK
  <1>2. HouseKept /\ UserHasHouse /\ MembersChosen /\ RequestsSound
    BY DEF Init, HouseKept, UserHasHouse, MembersChosen, RequestsSound
  <1> QED
    BY <1>1, <1>2 DEF IInv

\* Houses that are added take nothing away.
LEMMA MatchesGrow ==
  ASSUME TypeOK, NEW name, houses' = Append(houses, name) \/ houses' = houses, NEW o \in Options
  PROVE  /\ DOMAIN houses \subseteq DOMAIN houses'
         /\ Matches(o) \subseteq Matches(o)'
         /\ Matches(o) \subseteq DOMAIN houses
  BY DEF TypeOK, Matches, HousesNamed

\* A step that writes no table.
LEMMA ControlIInv ==
  ASSUME IInv, UNCHANGED <<accounts, houses, users, members, granted>>,
         NEW c \in Commands, NEW pc, NEW h \in Nat,
         command' = [command EXCEPT ![c].pc = pc, ![c].house = h],
         pc \in Running \cup {"failed", "declined", "rejected"},
         UNCHANGED request, faults' \in 0 .. MaxFaults,
         h = command[c].house \/ command[c].house = 0,
         h # 0 => h \in Matches(Opts(c)),
         pc \in {"confirm", "lookup", "create", "upsert"} => h # 0,
         pc = "upsert" => Opts(c).email \in accounts
  PROVE  IInv'
  <1> USE DEF IInv, Opts
  <1>1. TypeOK'
    BY DEF TypeOK, CommandState, Running
  <1>2. \A d \in Commands : Opts(d)' = Opts(d) /\ Matches(Opts(d))' = Matches(Opts(d))
    BY DEF TypeOK, CommandState, Matches, HousesNamed
  <1>3. HouseKept'
    <2> SUFFICES ASSUME NEW d \in Commands
                 PROVE  /\ command'[d].house # 0 => command'[d].house \in Matches(Opts(d))'
                        /\ command'[d].pc \in {"confirm", "lookup", "create", "upsert", "done"}
                             => command'[d].house # 0
                        /\ command'[d].pc = "upsert" => (Opts(d).email \in accounts)'
      BY DEF HouseKept
    <2>1. CASE d # c
      BY <1>2, <2>1 DEF TypeOK, HouseKept
    <2>2. CASE d = c
      <3>1. command'[c].pc = pc /\ command'[c].house = h
        BY DEF TypeOK, CommandState
      <3>2. h # 0 => h \in Matches(Opts(c))'
        BY <1>2
      <3>3. pc # "done"
        BY DEF Running
      <3>4. pc = "upsert" => (Opts(c).email \in accounts)'
        <4>1. Opts(c)' = Opts(c) /\ accounts' = accounts
          BY <1>2
        <4> HIDE DEF Opts
        <4> QED
          BY <4>1
      <3> QED
        BY <2>2, <3>1, <3>2, <3>3, <3>4
    <2> QED
      BY <2>1, <2>2
  <1>4. \A d \in Commands : command'[d].house # command[d].house => command[d].house = 0
    BY DEF TypeOK, CommandState
  <1>5. \A e \in Emails : Chosen(e) \subseteq Chosen(e)'
    BY <1>2, <1>4 DEF TypeOK, Chosen
  <1>6. UserHasHouse' /\ MembersChosen' /\ RequestsSound'
    BY <1>5 DEF TypeOK, RequestState, UserHasHouse, MembersChosen, RequestsSound
  <1> QED
    BY <1>1, <1>3, <1>6

LEMMA BecomeIInv ==
  ASSUME IInv, UNCHANGED <<accounts, houses, users, members, granted>>,
         NEW c \in Commands, NEW pc \in Running \cup {"failed", "declined", "rejected"},
         Become(c, pc), UNCHANGED request, faults' \in 0 .. MaxFaults,
         pc \in {"confirm", "lookup", "create", "upsert"} => command[c].house # 0,
         pc = "upsert" => Opts(c).email \in accounts
  PROVE  IInv'
  <1>1. command' = [command EXCEPT ![c].pc = pc, ![c].house = command[c].house]
        /\ command[c].house \in Nat
    BY DEF Become, IInv, TypeOK, CommandState
  <1> QED
    BY <1>1, ControlIInv DEF IInv, HouseKept

\* A request that moves on.
LEMMA RequestIInv ==
  ASSUME IInv, NEW r \in Requests, NEW next \in RequestState,
         request' = [request EXCEPT ![r] = next], next.email = request[r].email,
         \A h \in next.since : <<next.email, h>> \in granted,
         next.pc = "served" => next.house \in Chosen(next.email),
         next.pc = "refused" => next.since = {} \/ next.error,
         UNCHANGED <<accounts, houses, users, members, command, granted>>,
         faults' \in 0 .. MaxFaults
  PROVE  IInv'
  <1> USE DEF IInv
  <1>1. TypeOK'
    BY DEF TypeOK
  <1>2. HouseKept' /\ UserHasHouse' /\ MembersChosen'
    <2>1. HouseKept'
      BY DEF HouseKept, Matches, HousesNamed, Opts
    <2>2. UserHasHouse'
      BY DEF UserHasHouse
    <2>3. MembersChosen'
      BY DEF MembersChosen, Chosen, Opts
    <2> QED
      BY <2>1, <2>2, <2>3
  <1>3. \A e \in Emails : Chosen(e)' = Chosen(e)
    BY DEF Chosen, Opts
  <1>4. RequestsSound'
    BY <1>3 DEF TypeOK, RequestState, RequestsSound
  <1> QED
    BY <1>1, <1>2, <1>4

\* Tables that grow keep what is there sound.
LEMMA GrowIInv ==
  ASSUME IInv, TypeOK', HouseKept', UserHasHouse', MembersChosen',
         granted \subseteq granted', UNCHANGED request,
         \A e \in Emails : Chosen(e) \subseteq Chosen(e)'
  PROVE  IInv'
  BY DEF IInv, TypeOK, RequestState, RequestsSound

-----------------------------------------------------------------------------
LEMMA SeedIInv ==
  ASSUME IInv, NEW owner \in Emails, NEW name \in Names, Seed(owner, name) PROVE IInv'
  <1> USE DEF IInv, Seed
  <1>1. houses' \in Seq(Names) /\ DOMAIN houses' = DOMAIN houses \cup {Len(houses) + 1}
        /\ houses'[Len(houses) + 1] = name
    BY DEF TypeOK
  <1>2. TypeOK'
    BY <1>1 DEF TypeOK, HousesNamed
  <1>3. \A d \in Commands : Opts(d)' = Opts(d) /\ Matches(Opts(d)) \subseteq Matches(Opts(d))'
    BY MatchesGrow DEF TypeOK, CommandState, Opts
  <1>4. HouseKept'
    BY <1>3 DEF HouseKept, Opts
  <1>5. \A e \in Emails : Chosen(e) \subseteq Chosen(e)'
    BY <1>1 DEF Chosen, Opts
  <1>6. UserHasHouse'
    BY <1>1 DEF UserHasHouse, HousesNamed
  <1>7. MembersChosen'
    BY <1>2, <1>5 DEF TypeOK, MembersChosen, Chosen
  <1> QED
    BY <1>2, <1>4, <1>5, <1>6, <1>7, GrowIInv

\* The transaction, whether or not its answer arrives.
LEMMA CommitIInv ==
  ASSUME IInv, NEW c \in Commands, command[c].pc = "upsert", Commit(c),
         NEW pc \in {"done", "failed"}, Become(c, pc),
         granted \subseteq granted', granted' \subseteq granted \cup {<<Opts(c).email, command[c].house>>},
         UNCHANGED <<accounts, houses, request>>, faults' \in 0 .. MaxFaults
  PROVE  IInv'
  <1> DEFINE e == Opts(c).email
             h == command[c].house
  <1> USE DEF IInv
  <1>1. e \in accounts /\ h # 0 /\ h \in Matches(Opts(c)) /\ Opts(c) \in Options /\ h \in Nat
    BY DEF HouseKept, TypeOK, CommandState, Opts
  <1>2. h \in DOMAIN houses
    BY <1>1 DEF TypeOK, Matches, HousesNamed
  <1>3. command' \in [Commands -> CommandState]
    BY DEF Become, TypeOK, CommandState
  <1>4. TypeOK'
    BY <1>1, <1>2, <1>3 DEF TypeOK, Commit
  <1>5. \A d \in Commands : Opts(d)' = Opts(d) /\ command'[d].house = command[d].house
                            /\ Matches(Opts(d))' = Matches(Opts(d))
    BY DEF Become, TypeOK, CommandState, Opts, Matches, HousesNamed
  <1>6. HouseKept'
    BY <1>5 DEF Become, TypeOK, CommandState, HouseKept, Opts
  <1>7. \A x \in Emails : Chosen(x) \subseteq Chosen(x)'
    BY <1>5 DEF Chosen
  <1>8. UserHasHouse' /\ MembersChosen'
    BY <1>1, <1>2, <1>5, <1>7 DEF TypeOK, Commit, UserHasHouse, MembersChosen, Chosen
  <1> QED
    BY <1>4, <1>6, <1>7, <1>8, GrowIInv

\* A new account, whether or not its creator learns of it.
LEMMA CreateIInv ==
  ASSUME IInv, NEW c \in Commands, command[c].pc = "create",
         accounts' = accounts \cup {Opts(c).email},
         NEW pc \in {"upsert", "failed"}, Become(c, pc),
         UNCHANGED <<houses, users, members, granted, request>>, faults' \in 0 .. MaxFaults
  PROVE  IInv'
  <1> USE DEF IInv
  <1>1. command' \in [Commands -> CommandState] /\ Opts(c) \in Options
    BY DEF Become, TypeOK, CommandState, Opts, Running
  <1>2. TypeOK'
    BY <1>1, OptionsAssumption DEF TypeOK, Option
  <1>3. \A d \in Commands : Opts(d)' = Opts(d) /\ command'[d].house = command[d].house
                            /\ Matches(Opts(d))' = Matches(Opts(d))
    BY DEF Become, TypeOK, CommandState, Opts, Matches, HousesNamed
  <1>4. HouseKept'
    BY <1>3 DEF Become, TypeOK, CommandState, HouseKept, Opts
  <1>5. \A x \in Emails : Chosen(x) \subseteq Chosen(x)'
    BY <1>3 DEF Chosen
  <1>6. UserHasHouse' /\ MembersChosen'
    BY <1>5 DEF UserHasHouse, MembersChosen
  <1> QED
    BY <1>2, <1>4, <1>5, <1>6, GrowIInv

LEMMA CommandIInv ==
  ASSUME IInv, NEW c \in Commands,
         Run(c) \/ Step(c) \/ Fails(c) \/ ReplyLost(c) \/ Rerun(c)
  PROVE  IInv'
  <1> USE DEF Running
  <1>0. /\ faults \in 0 .. MaxFaults
        /\ faults < MaxFaults => faults + 1 \in 0 .. MaxFaults
    BY BoundsAssumption DEF IInv, TypeOK
  <1>1. CASE Run(c) \/ Rerun(c)
    BY <1>0, <1>1, BecomeIInv DEF Run, Rerun
  <1>2. CASE ResolveHouse(c)
    <2>1. ASSUME NEW h \in DOMAIN houses, Matches(Opts(c)) = {h},
                 command' = [command EXCEPT ![c].pc = "confirm", ![c].house = h]
          PROVE  IInv'
      <3>1. h \in Nat \ {0}
        BY <2>1 DEF IInv, TypeOK
      <3>2. h = command[c].house \/ command[c].house = 0
        BY <2>1 DEF IInv, HouseKept
      <3>3. /\ UNCHANGED <<accounts, houses, users, members, granted>>
            /\ UNCHANGED request /\ faults' \in 0 .. MaxFaults
        BY <1>0, <1>2 DEF ResolveHouse
      <3>4. h \in Matches(Opts(c))
        BY <2>1
      <3>5. "confirm" \in Running \cup {"failed", "declined", "rejected"}
            /\ "confirm" # "upsert" /\ h \in Nat /\ h # 0
        BY <3>1
      <3> HIDE DEF Running
      <3> QED
        BY <2>1, <3>2, <3>3, <3>4, <3>5, ControlIInv, ZenonT(60)
    <2>2. CASE Become(c, "rejected")
      BY <1>0, <1>2, <2>2, BecomeIInv DEF ResolveHouse
    <2> QED
      BY <1>2, <2>1, <2>2 DEF ResolveHouse
  <1>3. CASE Confirm(c)
    BY <1>0, <1>3, BecomeIInv DEF Confirm, IInv, HouseKept
  <1>4. CASE Lookup(c)
    BY <1>0, <1>4, BecomeIInv DEF Lookup, IInv, HouseKept
  <1>5. CASE Create(c)
    BY <1>0, <1>5, CreateIInv DEF Create
  <1>6. CASE Upsert(c)
    BY <1>0, <1>6, CommitIInv DEF Upsert
  <1>7. CASE Fails(c)
    BY <1>0, <1>7, BecomeIInv DEF Fails
  <1>8. CASE ReplyLost(c)
    BY <1>0, <1>8, CreateIInv, CommitIInv DEF ReplyLost
  <1> QED
    BY <1>1, <1>2, <1>3, <1>4, <1>5, <1>6, <1>7, <1>8 DEF Step

LEMMA MiddlewareIInv ==
  ASSUME IInv, NEW r \in Requests,
         Authenticate(r) \/ FindUser(r) \/ FindHouse(r) \/ QueryFails(r)
  PROVE  IInv'
  <1> DEFINE old == request[r]
             e   == request[r].email
  <1>0. /\ old \in RequestState /\ e \in Emails
        /\ faults \in 0 .. MaxFaults /\ (faults < MaxFaults => faults + 1 \in 0 .. MaxFaults)
        /\ \A h \in old.since : <<e, h>> \in granted
        /\ \A h \in old.since : e \in users /\ <<e, h>> \in members /\ h \in DOMAIN houses
    BY BoundsAssumption DEF IInv, TypeOK, RequestState, RequestsSound
  <1>1. CASE Authenticate(r)
    <2> DEFINE since == {h \in DOMAIN houses : <<e, h>> \in granted}
               next  == [old EXCEPT !.pc = "user", !.since = since]
    <2>1. since \in SUBSET Nat
      BY DEF IInv, TypeOK
    <2>2. next \in RequestState /\ next.email = e /\ next.since = since /\ next.pc = "user"
      BY <1>0, <2>1 DEF RequestState
    <2>3. request' = [request EXCEPT ![r] = next]
      BY <1>1 DEF Authenticate, IInv, TypeOK
    <2> HIDE DEF next
    <2> QED
      BY <1>0, <1>1, <2>2, <2>3, RequestIInv DEF Authenticate
  <1>2. ASSUME NEW pc \in {"house", "served", "refused"}, NEW h \in Nat, NEW error \in BOOLEAN,
               request' = [request EXCEPT ![r].pc = pc, ![r].house = h, ![r].error = error],
               pc = "served" => h \in Chosen(e),
               pc = "refused" => old.since = {} \/ error,
               UNCHANGED <<accounts, houses, users, members, command, granted>>,
               faults' \in 0 .. MaxFaults
        PROVE  IInv'
    <2> DEFINE next == [old EXCEPT !.pc = pc, !.house = h, !.error = error]
    <2>1. /\ next \in RequestState /\ next.email = e /\ next.since = old.since
          /\ next.pc = pc /\ next.house = h /\ next.error = error
      BY <1>0 DEF RequestState
    <2>2. request' = [request EXCEPT ![r] = next]
      BY <1>2 DEF IInv, TypeOK
    <2> HIDE DEF next
    <2> QED
      BY <1>0, <1>2, <2>1, <2>2, RequestIInv
  <1>3. \A h \in DOMAIN houses : <<e, h>> \in members => h \in Chosen(e) /\ h \in Nat
    BY <1>0 DEF IInv, TypeOK, MembersChosen
  <1>4. CASE FindUser(r)
    <2> DEFINE pc == IF e \in users THEN "house" ELSE "refused"
    <2>1. request' = [request EXCEPT ![r].pc = pc]
      BY <1>4 DEF FindUser
    <2>2. pc \in {"house", "served", "refused"} /\ pc # "served"
          /\ (pc = "refused" => old.since = {})
      BY <1>0
    <2> HIDE DEF pc
    <2>3. request' = [request EXCEPT ![r].pc = pc, ![r].house = old.house,
                                     ![r].error = old.error]
          /\ old.house \in Nat /\ old.error \in BOOLEAN
      BY <1>0, <2>1 DEF IInv, TypeOK, RequestState
    <2> QED
      BY <1>0, <1>2, <1>4, <2>2, <2>3 DEF FindUser
  <1>5. CASE FindHouse(r)
    <2> DEFINE found == {h \in DOMAIN houses : <<e, h>> \in members}
    <2>1. ASSUME NEW h \in found,
                 request' = [request EXCEPT ![r].pc = "served", ![r].house = h]
          PROVE  IInv'
      <3>1. request' = [request EXCEPT ![r].pc = "served", ![r].house = h,
                                       ![r].error = old.error]
            /\ old.error \in BOOLEAN
        BY <1>0, <2>1 DEF IInv, TypeOK, RequestState
      <3> QED
        BY <1>0, <1>2, <1>3, <1>5, <2>1, <3>1 DEF FindHouse
    <2>2. ASSUME found = {}, request' = [request EXCEPT ![r].pc = "refused"]
          PROVE  IInv'
      <3>1. request' = [request EXCEPT ![r].pc = "refused", ![r].house = old.house,
                                       ![r].error = old.error]
            /\ old.house \in Nat /\ old.error \in BOOLEAN
        BY <1>0, <2>2 DEF IInv, TypeOK, RequestState
      <3>2. old.since = {}
        BY <1>0, <2>2 DEF RequestState
      <3> QED
        BY <1>0, <1>2, <1>5, <3>1, <3>2 DEF FindHouse
    <2> QED
      BY <1>5, <2>1, <2>2 DEF FindHouse
  <1>6. CASE QueryFails(r)
    <2>1. request' = [request EXCEPT ![r].pc = "refused", ![r].house = old.house,
                                     ![r].error = TRUE]
          /\ old.house \in Nat
      BY <1>0, <1>6 DEF QueryFails, IInv, TypeOK, RequestState
    <2> QED
      BY <1>0, <1>2, <1>6, <2>1 DEF QueryFails
  <1> QED
    BY <1>1, <1>4, <1>5, <1>6

LEMMA StepIInv == IInv /\ [Next]_vars => IInv'
  <1> SUFFICES ASSUME IInv, [Next]_vars PROVE IInv'
    OBVIOUS
  <1>1. CASE UNCHANGED vars
    <2> USE <1>1 DEF vars, IInv
    <2>1. TypeOK' /\ UserHasHouse'
      BY DEF TypeOK, UserHasHouse
    <2>2. HouseKept'
      BY DEF HouseKept, Matches, HousesNamed, Opts
    <2>3. MembersChosen' /\ RequestsSound'
      BY DEF MembersChosen, RequestsSound, Chosen, Opts
    <2> QED
      BY <2>1, <2>2, <2>3
  <1> QED
    BY <1>1, SeedIInv, CommandIInv, MiddlewareIInv DEF Next

LEMMA Invariance == Spec => []IInv
  BY InitIInv, StepIInv, PTL DEF Spec

\* Every row and every process is of its type, and no row points nowhere.
THEOREM TypeCorrect == Spec => []TypeOK
  <1>1. IInv => TypeOK
    BY DEF IInv
  <1> QED
    BY <1>1, Invariance, PTL

\* Nobody is ever provisioned by halves.
THEOREM NobodyByHalves == Spec => []UserHasHouse
  <1>1. IInv => UserHasHouse
    BY DEF IInv
  <1> QED
    BY <1>1, Invariance, PTL

\* A success that was reported means access, and only to a house that was chosen.
THEOREM AccessAsProvisioned == Spec => []SuccessMeansAccess
  <1>1. IInv => SuccessMeansAccess
    BY DEF IInv, RequestsSound, SuccessMeansAccess
  <1> QED
    BY <1>1, Invariance, PTL
=============================================================================
