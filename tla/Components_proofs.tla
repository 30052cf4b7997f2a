------------------------- MODULE Components_proofs -------------------------
(* Proofs about the components composed in module Components: for every set  *)
(* of organizations, accounts, workers, reports, callers, clients, tasks and  *)
(* environments and every bound.  A section per component with its inductive  *)
(* invariant; the last sections carry them over to the composition.          *)
EXTENDS Components, SequenceTheorems, FiniteSetTheorems, TLAPS

-----------------------------------------------------------------------------
(* Provider accounts: ProviderAccounts.                                      *)

AccountRow == [org : Org \cup {Nothing}, status : {"none", "VERIFIED", "DEGRADED", "REVOKED"},
               isDefault : BOOLEAN, version : Nat, fresh : BOOLEAN]
ResourceRow == [account : Account \cup {Nothing}, status : {"none", "VERIFIED", "DISABLED"},
                isDefault : BOOLEAN, fresh : BOOLEAN]
TaskRow == [kind : {"idle", "rotate", "verify", "health", "import", "callback", "persisting"},
            account : Account \cup {Nothing}, version : Nat, healthy : BOOLEAN,
            found : SUBSET Provider!Resource, number : Number \cup {Nothing}]

\* A row that exists has its owner: an account its organization, a resource an
\* account that was connected.
RowsInOrder ==
    /\ \A a \in Account : account[a].status = "none" <=> account[a].org = Nothing
    /\ \A r \in Provider!Resource : resource[r].status = "none" <=> resource[r].account = Nothing
    /\ \A r \in Provider!Resource, a \in Account : Provider!Bound(r, a) => account[a].status # "none"

\* A task that runs has its account, a callback its number.
TasksInOrder ==
    \A w \in Worker :
        /\ task[w].kind # "idle" => task[w].account \in Account
        /\ task[w].kind \in {"callback", "persisting"} => task[w].number \in Number

RowsInv ==
    /\ account \in [Account -> AccountRow] /\ resource \in [Provider!Resource -> ResourceRow]
    /\ local \in [Org -> Number \cup {Nothing}]
    /\ RowsInOrder /\ Provider!RevokedIsOut /\ Provider!OneDefault /\ Provider!AnswersAreCurrent
TasksInv ==
    /\ task \in [Worker -> TaskRow] /\ asked \in Nat
    /\ TasksInOrder /\ Provider!CallbacksKeepAuthority
PInv == RowsInv /\ TasksInv

-----------------------------------------------------------------------------
\* The rows: what each writer makes of them.

\* A default is bound to an account in use, of some organization.
LEMMA DefaultsAreBound ==
    ASSUME RowsInv, NEW r \in Provider!Resource, resource[r].isDefault
    PROVE  /\ resource[r].account \in Account /\ Provider!Live(resource[r].account)
           /\ Provider!Owner(r) \in Org /\ resource[r].status = "VERIFIED"
<1>1. resource[r] \in ResourceRow /\ resource[r].status = "VERIFIED"
    BY DEF RowsInv, Provider!RevokedIsOut
<1>2. resource[r].account \in Account
    BY <1>1 DEF ResourceRow, RowsInv, RowsInOrder
<1>3. Provider!Live(resource[r].account)
    BY <1>1 DEF RowsInv, Provider!RevokedIsOut
<1>4. account[resource[r].account].org \in Org
    BY <1>2, <1>3 DEF RowsInv, RowsInOrder, Provider!Live, AccountRow
<1> QED BY <1>1, <1>2, <1>3, <1>4 DEF Provider!Owner

\* Who writes accounts alone leaves each its organization, once it has one, and
\* its being in use.
LEMMA AccountsKeepRows ==
    ASSUME RowsInv, account' \in [Account -> AccountRow], UNCHANGED <<resource, local>>,
           \A b \in Account :
              /\ account[b].status # "none" =>
                    account'[b].org = account[b].org /\ account'[b].status # "none"
              /\ account'[b].status = "none" <=> account'[b].org = Nothing
              /\ Provider!Live(b) => Provider!Live(b)'
              /\ account'[b].isDefault => Provider!Live(b)'
              /\ account'[b].fresh,
           \A b, c \in Account : b # c /\ account'[b].isDefault /\ account'[c].isDefault =>
              account'[b].org # account'[c].org
    PROVE  RowsInv'
<1>1. account \in [Account -> AccountRow] /\ resource \in [Provider!Resource -> ResourceRow]
      /\ local \in [Org -> Number \cup {Nothing}]
    BY DEF RowsInv
<1>2. RowsInOrder' BY DEF RowsInv, RowsInOrder, Provider!Bound
<1>3. Provider!RevokedIsOut'
    <2>1. \A r \in Provider!Resource : resource[r].status = "VERIFIED"
                => resource[r].account \in Account
        BY <1>1 DEF RowsInv, RowsInOrder, ResourceRow
    <2> QED BY <2>1 DEF RowsInv, Provider!RevokedIsOut
<1>4. Provider!OneDefault'
    <2>1. \A r \in Provider!Resource : resource[r].isDefault
                => account'[resource[r].account].org = Provider!Owner(r)
        BY DefaultsAreBound DEF Provider!Owner, Provider!Live
    <2>2. Number \subseteq Provider!Resource BY DEF Provider!Resource
    <2> QED BY <2>1, <2>2 DEF RowsInv, Provider!OneDefault, Provider!Owner
<1>5. Provider!AnswersAreCurrent' BY DEF RowsInv, Provider!AnswersAreCurrent
<1> QED BY <1>1, <1>2, <1>3, <1>4, <1>5 DEF RowsInv

\* An answer recorded of an account in use leaves whose it is.
LEMMA RefreshKeepsRows ==
    ASSUME RowsInv, NEW a \in Account, Provider!Live(a), NEW entry \in AccountRow,
           account' = [account EXCEPT ![a] = entry],
           entry.org = account[a].org, entry.isDefault = account[a].isDefault,
           entry.status \in {"VERIFIED", "DEGRADED"}, entry.fresh = TRUE,
           UNCHANGED <<resource, local>>
    PROVE  RowsInv'
<1>1. account \in [Account -> AccountRow] BY DEF RowsInv
<1>2. account' \in [Account -> AccountRow] BY <1>1
<1>3. ASSUME NEW b \in Account
      PROVE  /\ account'[b].org = account[b].org /\ account'[b].isDefault = account[b].isDefault
             /\ account'[b].fresh
             /\ Provider!Live(b) => Provider!Live(b)'
             /\ account'[b].status = "none" <=> account[b].status = "none"
    BY <1>1 DEF Provider!Live, RowsInv, Provider!AnswersAreCurrent
<1>4. \A b \in Account : account'[b].isDefault => Provider!Live(b)'
    BY <1>3 DEF RowsInv, Provider!RevokedIsOut
<1>5. \A b, c \in Account : b # c /\ account'[b].isDefault /\ account'[c].isDefault =>
         account'[b].org # account'[c].org
    BY <1>3 DEF RowsInv, Provider!OneDefault
<1>6. \A b \in Account : account'[b].status = "none" <=> account'[b].org = Nothing
    BY <1>3 DEF RowsInv, RowsInOrder
<1> QED BY <1>2, <1>3, <1>4, <1>5, <1>6, AccountsKeepRows

LEMMA DeposeType ==
    ASSUME RowsInv, NEW others
    PROVE  /\ Provider!Depose(others) \in [Account -> AccountRow]
           /\ \A b \in Account :
                 /\ Provider!Depose(others)[b].org = account[b].org
                 /\ Provider!Depose(others)[b].status = account[b].status
                 /\ Provider!Depose(others)[b].fresh
                 /\ Provider!Depose(others)[b].isDefault = (account[b].isDefault /\ b \notin others)
<1>1. account \in [Account -> AccountRow] /\ \A b \in Account : account[b].fresh
    BY DEF RowsInv, Provider!AnswersAreCurrent
<1>2. ASSUME NEW b \in Account
      PROVE  /\ Provider!Depose(others)[b] \in AccountRow
             /\ Provider!Depose(others)[b].org = account[b].org
             /\ Provider!Depose(others)[b].status = account[b].status
             /\ Provider!Depose(others)[b].fresh
             /\ Provider!Depose(others)[b].isDefault = (account[b].isDefault /\ b \notin others)
    <2> DEFINE entry == account[b]
    <2>1. entry \in AccountRow /\ entry.fresh BY <1>1
    <2>2. Provider!Depose(others)[b] = IF b \in others THEN [entry EXCEPT !.isDefault = FALSE] ELSE entry
        BY DEF Provider!Depose
    <2> HIDE DEF entry
    <2>3. [entry EXCEPT !.isDefault = FALSE] \in AccountRow BY <2>1 DEF AccountRow
    <2>4. /\ [entry EXCEPT !.isDefault = FALSE].org = entry.org
          /\ [entry EXCEPT !.isDefault = FALSE].status = entry.status
          /\ [entry EXCEPT !.isDefault = FALSE].fresh = entry.fresh
          /\ [entry EXCEPT !.isDefault = FALSE].isDefault = FALSE
          /\ entry.isDefault \in BOOLEAN
        BY <2>1 DEF AccountRow
    <2>5. CASE b \in others BY <2>1, <2>2, <2>3, <2>4, <2>5 DEF entry
    <2>6. CASE b \notin others BY <2>1, <2>2, <2>4, <2>6 DEF entry
    <2> QED BY <2>5, <2>6
<1>3. Provider!Depose(others) = [b \in Account |-> Provider!Depose(others)[b]]
    BY DEF Provider!Depose
<1> QED BY <1>2, <1>3

\* An account takes the place of its organization's default, or takes none.
LEMMA NewDefaultKeepsRows ==
    ASSUME RowsInv, NEW a \in Account, NEW o \in Org, NEW entry \in AccountRow, NEW others,
           account' = [Provider!Depose(others) EXCEPT ![a] = entry], UNCHANGED <<resource, local>>,
           entry.org = o, entry.status = "VERIFIED", entry.fresh = TRUE,
           account[a].status # "none" => account[a].org = o,
           entry.isDefault => Provider!Deposing(o, a) \subseteq others
    PROVE  RowsInv'
<1>1. account \in [Account -> AccountRow] /\ o # Nothing
    BY ProviderConstants DEF RowsInv
<1>2. /\ Provider!Depose(others) \in [Account -> AccountRow]
      /\ \A b \in Account :
            /\ Provider!Depose(others)[b].org = account[b].org
            /\ Provider!Depose(others)[b].status = account[b].status
            /\ Provider!Depose(others)[b].fresh
            /\ Provider!Depose(others)[b].isDefault = (account[b].isDefault /\ b \notin others)
    BY DeposeType
<1>3. account' \in [Account -> AccountRow] /\ account'[a] = entry
      /\ \A b \in Account \ {a} : account'[b] = Provider!Depose(others)[b]
    BY <1>2
<1>4. \A b \in Account \ {a} :
         /\ account'[b].org = account[b].org /\ account'[b].status = account[b].status
         /\ account'[b].fresh
         /\ account'[b].isDefault => account[b].isDefault /\ b \notin others
    BY <1>2, <1>3
<1>5. ASSUME NEW b \in Account
      PROVE  /\ account[b].status # "none" =>
                   account'[b].org = account[b].org /\ account'[b].status # "none"
             /\ account'[b].status = "none" <=> account'[b].org = Nothing
             /\ Provider!Live(b) => Provider!Live(b)'
             /\ account'[b].isDefault => Provider!Live(b)'
             /\ account'[b].fresh
    <2>1. CASE b = a BY <1>1, <1>3, <2>1 DEF Provider!Live
    <2>2. CASE b # a BY <1>4, <2>2 DEF Provider!Live, RowsInv, RowsInOrder, Provider!RevokedIsOut
    <2> QED BY <2>1, <2>2
<1>6. ASSUME NEW b \in Account \ {a}, account'[b].isDefault, entry.isDefault
      PROVE  account'[b].org # o
    BY <1>4, <1>6 DEF Provider!Deposing
<1>7. \A b, c \in Account : b # c /\ account'[b].isDefault /\ account'[c].isDefault =>
         account'[b].org # account'[c].org
    BY <1>3, <1>4, <1>6 DEF RowsInv, Provider!OneDefault
<1> QED BY <1>3, <1>5, <1>7, AccountsKeepRows

LEMMA ConnectKeepsRows ==
    ASSUME RowsInv, NEW o \in Org, NEW a \in Account, NEW isDefault \in BOOLEAN,
           Provider!Connect(o, a, isDefault)
    PROVE  RowsInv'
<1> DEFINE entry == [org |-> o, status |-> "VERIFIED", isDefault |-> isDefault,
                   version |-> 1, fresh |-> TRUE]
           others == IF isDefault THEN Provider!Deposing(o, a) ELSE {}
<1>1. entry \in AccountRow /\ entry.org = o /\ entry.status = "VERIFIED" /\ entry.fresh = TRUE
      /\ entry.isDefault = isDefault
    BY DEF AccountRow
<1>2. account' = [Provider!Depose(others) EXCEPT ![a] = entry] /\ UNCHANGED <<resource, local>>
      /\ account[a].status = "none"
    BY DEF Provider!Connect
<1>3. isDefault => Provider!Deposing(o, a) \subseteq others OBVIOUS
<1> HIDE DEF entry, others
<1> QED BY <1>1, <1>2, <1>3, NewDefaultKeepsRows

LEMMA SetDefaultKeepsRows ==
    ASSUME RowsInv, NEW a \in Account, Provider!SetDefault(a)
    PROVE  RowsInv'
<1> DEFINE o == account[a].org
           others == Provider!Deposing(o, a)
           old == Provider!Depose(others)[a]
           entry == [old EXCEPT !.isDefault = TRUE]
<1>1. o \in Org /\ account[a].status = "VERIFIED" /\ a \notin others
    BY DEF Provider!SetDefault, Provider!Verified, RowsInv, RowsInOrder, AccountRow,
           Provider!Deposing
<1>2. old \in AccountRow /\ old.org = o /\ old.status = "VERIFIED" /\ old.fresh
    BY <1>1, DeposeType
<1>3. account' = [Provider!Depose(others) EXCEPT ![a] = entry] /\ UNCHANGED <<resource, local>>
    BY DEF Provider!SetDefault
<1> HIDE DEF old, others
<1>4. entry \in AccountRow /\ entry.org = o /\ entry.status = "VERIFIED" /\ entry.fresh = TRUE
    BY <1>2 DEF AccountRow
<1> HIDE DEF entry
<1>5. Provider!Deposing(o, a) \subseteq others BY DEF others
<1> QED BY <1>1, <1>3, <1>4, <1>5, NewDefaultKeepsRows

-----------------------------------------------------------------------------
\* Who is disabled is no default, and stays with its account.
LEMMA DisabledRow ==
    ASSUME NEW entry \in ResourceRow, entry.status # "none"
    PROVE  /\ Provider!Disabled(entry) \in ResourceRow
           /\ Provider!Disabled(entry).account = entry.account /\
                    Provider!Disabled(entry).fresh = entry.fresh
           /\ Provider!Disabled(entry).status = "DISABLED" /\ Provider!Disabled(entry).isDefault = FALSE
BY DEF Provider!Disabled, ResourceRow

\* Resources are disabled, all those of an account that goes out of use among
\* them.
LEMMA GoneKeepsRows ==
    ASSUME RowsInv, NEW gone \in SUBSET Provider!Resource, \A r \in gone : resource[r].status # "none",
           resource' = [r \in Provider!Resource |-> IF r \in gone THEN Provider!Disabled(resource[r])
                                                          ELSE resource[r]],
           UNCHANGED local, account' \in [Account -> AccountRow],
           \A b \in Account :
              /\ account'[b].org = account[b].org
              /\ account'[b].status = "none" <=> account[b].status = "none"
              /\ account'[b].isDefault => account[b].isDefault /\ Provider!Live(b)'
              /\ account'[b].fresh,
           \A r \in Provider!Resource \ gone, b \in Account : Provider!Bound(r, b) /\
                 Provider!Live(b) => Provider!Live(b)'
    PROVE  RowsInv'
<1>1. resource \in [Provider!Resource -> ResourceRow] /\ local \in [Org -> Number \cup {Nothing}]
    BY DEF RowsInv
<1>2. ASSUME NEW r \in Provider!Resource
      PROVE  /\ resource'[r] \in ResourceRow
             /\ resource'[r].account = resource[r].account
             /\ resource'[r].fresh = resource[r].fresh
             /\ resource'[r].status = "none" <=> resource[r].status = "none"
             /\ r \in gone => resource'[r].status = "DISABLED" /\ ~resource'[r].isDefault
             /\ r \notin gone => resource'[r] = resource[r]
    BY <1>1, DisabledRow
<1>3. resource' \in [Provider!Resource -> ResourceRow]
    <2>1. resource' = [r \in Provider!Resource |-> resource'[r]] OBVIOUS
    <2> QED BY <1>2, <2>1
<1>4. RowsInOrder' BY <1>2 DEF RowsInv, RowsInOrder, Provider!Bound
<1>5. Provider!RevokedIsOut'
    <2>1. ASSUME NEW r \in Provider!Resource, resource'[r].status = "VERIFIED"
          PROVE  Provider!Live(resource[r].account)'
        <3>1. r \notin gone /\ resource'[r] = resource[r] BY <1>2, <2>1
        <3>2. resource[r].account \in Account /\ Provider!Live(resource[r].account)
            BY <1>1, <2>1, <3>1 DEF RowsInv, RowsInOrder, Provider!RevokedIsOut, ResourceRow
        <3> QED BY <3>1, <3>2 DEF Provider!Bound, Provider!Live
    <2>2. \A r \in Provider!Resource : resource'[r].isDefault => resource'[r].status = "VERIFIED"
        BY <1>2 DEF RowsInv, Provider!RevokedIsOut
    <2> QED BY <2>1, <2>2 DEF Provider!RevokedIsOut, Provider!Live
<1>6. Provider!OneDefault'
    <2>1. \A r \in Provider!Resource : resource'[r].isDefault =>
             resource[r].isDefault /\ account'[resource'[r].account].org = Provider!Owner(r)
        BY <1>2, DefaultsAreBound DEF Provider!Owner
    <2>2. Number \subseteq Provider!Resource /\ Service \subseteq Provider!Resource
        BY DEF Provider!Resource
    <2>3. \A s \in Service : resource'[s].account = resource[s].account BY <1>2, <2>2
    <2>4. \A m, n \in Number : m # n /\ resource'[m].isDefault /\ resource'[n].isDefault =>
             Provider!Owner(m)' # Provider!Owner(n)'
        BY <2>1, <2>2 DEF RowsInv, Provider!OneDefault, Provider!Owner
    <2>5. \A n \in Number : resource'[n].isDefault => local'[Provider!Owner(n)'] = Nothing
        BY <2>1, <2>2 DEF RowsInv, Provider!OneDefault, Provider!Owner
    <2>6. ASSUME NEW s \in Service, NEW t \in Service, s # t,
                 resource'[s].isDefault, resource'[t].isDefault
          PROVE  resource'[s].account # resource'[t].account
        <3>1. resource[s].isDefault /\ resource[t].isDefault BY <2>1, <2>2, <2>6
        <3>2. resource[s].account # resource[t].account
            BY <2>6, <3>1 DEF RowsInv, Provider!OneDefault
        <3>3. resource'[s].account = resource[s].account /\ resource'[t].account = resource[t].account
            BY <2>3
        <3> QED BY <3>2, <3>3
    <2>7. \A b, c \in Account : b # c /\ account'[b].isDefault /\ account'[c].isDefault =>
             account'[b].org # account'[c].org
        BY DEF RowsInv, Provider!OneDefault
    <2> QED BY <2>4, <2>5, <2>6, <2>7 DEF Provider!OneDefault
<1>7. Provider!AnswersAreCurrent' BY <1>2 DEF RowsInv, Provider!AnswersAreCurrent
<1> QED BY <1>1, <1>3, <1>4, <1>5, <1>6, <1>7 DEF RowsInv

LEMMA RevokeKeepsRows ==
    ASSUME RowsInv, NEW a \in Account, Provider!Revoke(a)
    PROVE  RowsInv'
<1> DEFINE gone == {r \in Provider!Resource : Provider!Bound(r, a)}
           old == account[a]
           entry == [old EXCEPT !.status = "REVOKED", !.isDefault = FALSE]
<1>1. account \in [Account -> AccountRow] /\ resource \in [Provider!Resource -> ResourceRow]
      /\ old \in AccountRow /\ old.status # "none" /\ old.fresh
    BY DEF RowsInv, Provider!Revoke, Provider!Live, Provider!AnswersAreCurrent
<1>2. account' = [account EXCEPT ![a] = entry] /\ UNCHANGED local
      /\ resource' = [r \in Provider!Resource |-> IF r \in gone THEN Provider!Disabled(resource[r])
                                                       ELSE resource[r]]
    BY DEF Provider!Revoke
<1>3. \A r \in gone : resource[r].status # "none"
    BY ProviderConstants DEF RowsInv, RowsInOrder, Provider!Bound
<1> HIDE DEF old
<1>4. entry \in AccountRow /\ entry.status = "REVOKED" /\ entry.isDefault = FALSE
      /\ entry.org = old.org /\ entry.fresh = old.fresh
    BY <1>1 DEF AccountRow
<1> HIDE DEF entry
<1>5. /\ account' \in [Account -> AccountRow] /\ account'[a] = entry
      /\ \A b \in Account \ {a} : account'[b] = account[b]
    BY <1>1, <1>2, <1>4
<1>6. \A b \in Account :
         /\ account'[b].org = account[b].org
         /\ account'[b].status = "none" <=> account[b].status = "none"
         /\ account'[b].isDefault => account[b].isDefault /\ Provider!Live(b)'
         /\ account'[b].fresh
    <2> SUFFICES ASSUME NEW b \in Account
                 PROVE  /\ account'[b].org = account[b].org
                        /\ account'[b].status = "none" <=> account[b].status = "none"
                        /\ account'[b].isDefault => account[b].isDefault /\ Provider!Live(b)'
                        /\ account'[b].fresh
        OBVIOUS
    <2>1. CASE b = a BY <1>1, <1>4, <1>5, <2>1 DEF old
    <2>2. CASE b # a
        <3>1. account'[b] = account[b] BY <1>5, <2>2
        <3>2. account[b].fresh BY DEF RowsInv, Provider!AnswersAreCurrent
        <3>3. account[b].isDefault => Provider!Live(b) BY DEF RowsInv, Provider!RevokedIsOut
        <3> QED BY <3>1, <3>2, <3>3 DEF Provider!Live
    <2> QED BY <2>1, <2>2
<1>7. \A r \in Provider!Resource \ gone, b \in Account : Provider!Bound(r, b) /\
            Provider!Live(b) => Provider!Live(b)'
    BY <1>5 DEF Provider!Live, Provider!Bound
<1>8. gone \in SUBSET Provider!Resource OBVIOUS
<1>9. resource' = [r \in Provider!Resource |-> IF r \in gone THEN Provider!Disabled(resource[r])
                                                  ELSE resource[r]] /\ UNCHANGED local
    BY <1>2
<1>10. account' \in [Account -> AccountRow] BY <1>5
<1> HIDE DEF gone
<1> QED BY <1>3, <1>6, <1>7, <1>8, <1>9, <1>10, GoneKeepsRows

LEMMA DisableKeepsRows ==
    ASSUME RowsInv, NEW r \in Provider!Resource, Provider!Disable(r)
    PROVE  RowsInv'
<1> DEFINE gone == {r}
<1>1. account \in [Account -> AccountRow] /\ resource \in [Provider!Resource -> ResourceRow]
    BY DEF RowsInv
<1>2. UNCHANGED <<account, local>> /\ resource[r].status # "none"
      /\ resource' = [q \in Provider!Resource |-> IF q \in gone THEN Provider!Disabled(resource[q])
                                                       ELSE resource[q]]
    BY <1>1 DEF Provider!Disable
<1>3. \A b \in Account : account[b].fresh /\ (account[b].isDefault => Provider!Live(b))
    BY DEF RowsInv, Provider!AnswersAreCurrent, Provider!RevokedIsOut
<1>4. gone \in SUBSET Provider!Resource /\ (\A q \in gone : resource[q].status # "none") BY <1>2
<1>5. \A b \in Account : Provider!Live(b)' <=> Provider!Live(b) BY <1>2 DEF Provider!Live
<1> HIDE DEF gone
<1> QED BY <1>1, <1>2, <1>3, <1>4, <1>5, GoneKeepsRows

-----------------------------------------------------------------------------
\* Who writes defaults alone keeps the rows if at most one default is left.
LEMMA DefaultsKeepRows ==
    ASSUME RowsInv, UNCHANGED account, local' \in [Org -> Number \cup {Nothing}],
           resource' \in [Provider!Resource -> ResourceRow], Provider!OneDefault',
           \A q \in Provider!Resource :
              /\ resource'[q].account = resource[q].account
              /\ resource'[q].status = resource[q].status
              /\ resource'[q].fresh = resource[q].fresh
              /\ resource'[q].isDefault => resource[q].status = "VERIFIED"
    PROVE  RowsInv'
<1>1. RowsInOrder' BY DEF RowsInv, RowsInOrder, Provider!Bound
<1>2. Provider!RevokedIsOut' BY DEF RowsInv, Provider!RevokedIsOut, Provider!Live
<1>3. Provider!AnswersAreCurrent' BY DEF RowsInv, Provider!AnswersAreCurrent
<1> QED BY <1>1, <1>2, <1>3 DEF RowsInv

\* A default is among those its organization's next default number, or its
\* account's next default service, takes the place of.
LEMMA DefaultsArePeers ==
    ASSUME RowsInv, NEW q \in Provider!Resource, resource[q].isDefault
    PROVE  q \in Number => q \in Provider!NumbersOf(Provider!Owner(q))
<1>1. resource[q].account \in Account BY DefaultsAreBound
<1> QED BY <1>1 DEF Provider!NumbersOf, Provider!Owner, Provider!Bound

LEMMA DefaultRow ==
    ASSUME NEW entry \in ResourceRow, NEW b \in BOOLEAN
    PROVE  /\ [entry EXCEPT !.isDefault = b] \in ResourceRow
           /\ [entry EXCEPT !.isDefault = b].account = entry.account
           /\ [entry EXCEPT !.isDefault = b].status = entry.status
           /\ [entry EXCEPT !.isDefault = b].fresh = entry.fresh
           /\ [entry EXCEPT !.isDefault = b].isDefault = b
BY DEF ResourceRow

LEMMA MakeDefaultKeepsRows ==
    ASSUME RowsInv, NEW r \in Provider!Resource, Provider!MakeDefault(r)
    PROVE  RowsInv'
<1> DEFINE a == resource[r].account
           o == account[a].org
           b(q) == (q = r) \/ (resource[q].isDefault /\ q \notin Provider!Peers(r, a))
<1>1. /\ account \in [Account -> AccountRow] /\ resource \in [Provider!Resource -> ResourceRow]
      /\ local \in [Org -> Number \cup {Nothing}]
      /\ a \in Account /\ o \in Org /\ resource[r].status = "VERIFIED"
    BY DEF Provider!MakeDefault, Provider!Verified, RowsInv, RowsInOrder, AccountRow, ResourceRow
<1>2. resource' = [q \in Provider!Resource |-> [resource[q] EXCEPT !.isDefault = b(q)]]
      /\ local' = (IF r \in Number THEN [local EXCEPT ![o] = Nothing] ELSE local)
      /\ UNCHANGED account
    BY DEF Provider!MakeDefault
<1>3. ASSUME NEW q \in Provider!Resource
      PROVE  /\ resource'[q] \in ResourceRow
             /\ resource'[q].account = resource[q].account
             /\ resource'[q].status = resource[q].status
             /\ resource'[q].fresh = resource[q].fresh
             /\ resource'[q].isDefault = b(q)
    <2>1. resource[q] \in ResourceRow /\ b(q) \in BOOLEAN BY <1>1 DEF ResourceRow
    <2>2. resource'[q] = [resource[q] EXCEPT !.isDefault = b(q)] BY <1>2
    <2> HIDE DEF b
    <2> QED BY <2>1, <2>2, DefaultRow
<1>4. resource' \in [Provider!Resource -> ResourceRow]
    <2>1. resource' = [q \in Provider!Resource |-> resource'[q]] BY <1>2
    <2> HIDE DEF b
    <2> QED BY <1>3, <2>1
<1>5. local' \in [Org -> Number \cup {Nothing}] BY <1>1, <1>2
<1>6. Number \subseteq Provider!Resource /\ Service \subseteq Provider!Resource /\
            Number \cap Service = {}
    BY ProviderConstants DEF Provider!Resource
<1>7. ASSUME NEW n \in Number, resource'[n].isDefault
      PROVE  /\ n # r => resource[n].isDefault /\ (r \in Number => Provider!Owner(n) # o)
             /\ Provider!Owner(n)' = Provider!Owner(n) /\ Provider!Owner(n) \in Org /\
                      local'[Provider!Owner(n)] = Nothing
             /\ n = r => Provider!Owner(n) = o
    <2>1. n # r => resource[n].isDefault /\ n \notin Provider!Peers(r, a)
        BY <1>3, <1>6, <1>7
    <2>2. n # r /\ r \in Number => Provider!Owner(n) # o
        BY <1>6, <2>1, DefaultsArePeers DEF Provider!Peers
    <2>3. Provider!Owner(n)' = Provider!Owner(n) BY <1>2, <1>3, <1>6 DEF Provider!Owner
    <2>4. n = r => Provider!Owner(n) = o BY DEF Provider!Owner
    <2>5. Provider!Owner(n) \in Org BY <1>1, <1>6, <2>1, <2>4, DefaultsAreBound
    <2>6. n # r => local[Provider!Owner(n)] = Nothing BY <2>1 DEF RowsInv, Provider!OneDefault
    <2>7. local'[Provider!Owner(n)] = Nothing BY <1>1, <1>2, <2>4, <2>5, <2>6
    <2> QED BY <2>1, <2>2, <2>3, <2>4, <2>5, <2>7
<1>8. ASSUME NEW s \in Service, NEW t \in Service, s # t,
             resource'[s].isDefault, resource'[t].isDefault
      PROVE  resource'[s].account # resource'[t].account
    <2>1. \A q \in Service : q # r /\ resource'[q].isDefault =>
             /\ resource[q].isDefault
             /\ r \in Service => resource[q].account # a
        BY <1>3, <1>6 DEF Provider!Peers, Provider!Bound
    <2>2. resource[s].account # resource[t].account
        BY <1>8, <2>1 DEF RowsInv, Provider!OneDefault
    <2> QED BY <1>3, <1>6, <2>2
<1> HIDE DEF b
<1>9. Provider!OneDefault'
    <2>1. \A m, n \in Number : m # n /\ resource'[m].isDefault /\ resource'[n].isDefault =>
             Provider!Owner(m)' # Provider!Owner(n)'
        BY <1>7 DEF RowsInv, Provider!OneDefault
    <2>2. \A n \in Number : resource'[n].isDefault => local'[Provider!Owner(n)'] = Nothing
        BY <1>7
    <2> QED BY <1>2, <1>8, <2>1, <2>2 DEF RowsInv, Provider!OneDefault
<1>10. \A q \in Provider!Resource : resource'[q].isDefault => resource[q].status = "VERIFIED"
    BY <1>1, <1>3 DEF RowsInv, Provider!RevokedIsOut, b
<1> QED BY <1>2, <1>3, <1>4, <1>5, <1>9, <1>10, DefaultsKeepRows

LEMMA UpsertKeepsRows ==
    ASSUME RowsInv, NEW o \in Org, NEW n \in Number, NEW isDefault \in BOOLEAN,
           Provider!Upsert(o, n, isDefault)
    PROVE  RowsInv'
<1>1. /\ account \in [Account -> AccountRow] /\ resource \in [Provider!Resource -> ResourceRow]
      /\ local \in [Org -> Number \cup {Nothing}]
    BY DEF RowsInv
<1>2. /\ resource' = [r \in Provider!Resource |->
             IF isDefault /\ r \in Provider!NumbersOf(o) THEN [resource[r] EXCEPT !.isDefault = FALSE]
                                                ELSE resource[r]]
      /\ local' = [local EXCEPT ![o] = IF isDefault THEN n
                                       ELSE IF local[o] = n THEN Nothing ELSE local[o]]
      /\ UNCHANGED account
    BY DEF Provider!Upsert
<1>3. ASSUME NEW q \in Provider!Resource
      PROVE  /\ resource'[q] \in ResourceRow
             /\ resource'[q].account = resource[q].account
             /\ resource'[q].status = resource[q].status
             /\ resource'[q].fresh = resource[q].fresh
             /\ resource'[q].isDefault => resource[q].isDefault
             /\ isDefault /\ q \in Provider!NumbersOf(o) => ~resource'[q].isDefault
    BY <1>1, <1>2, DefaultRow
<1>4. resource' \in [Provider!Resource -> ResourceRow]
    <2>1. resource' = [q \in Provider!Resource |-> resource'[q]] BY <1>2
    <2> QED BY <1>3, <2>1
<1>5. local' \in [Org -> Number \cup {Nothing}] BY <1>1, <1>2
<1>6. Number \subseteq Provider!Resource /\ Service \subseteq Provider!Resource
    BY DEF Provider!Resource
<1>7. ASSUME NEW m \in Number, resource'[m].isDefault
      PROVE  resource[m].isDefault /\ Provider!Owner(m)' = Provider!Owner(m) /\
            local'[Provider!Owner(m)] = Nothing
    <2>1. resource[m].isDefault /\ Provider!Owner(m)' = Provider!Owner(m)
        BY <1>2, <1>3, <1>6, <1>7 DEF Provider!Owner
    <2>2. Provider!Owner(m) \in Org /\ local[Provider!Owner(m)] = Nothing
        BY <1>6, <2>1, DefaultsAreBound DEF RowsInv, Provider!OneDefault
    <2>3. isDefault => Provider!Owner(m) # o
        BY <1>3, <1>6, <1>7, <2>1, DefaultsArePeers
    <2>4. local'[Provider!Owner(m)] = Nothing BY <1>1, <1>2, <2>2, <2>3
    <2> QED BY <2>1, <2>4
<1>8. Provider!OneDefault'
    <2>1. \A s \in Service : resource'[s].account = resource[s].account
                             /\ (resource'[s].isDefault => resource[s].isDefault)
        BY <1>3, <1>6
    <2>2. \A m1, m2 \in Number : m1 # m2 /\ resource'[m1].isDefault /\ resource'[m2].isDefault =>
             Provider!Owner(m1)' # Provider!Owner(m2)'
        BY <1>7 DEF RowsInv, Provider!OneDefault
    <2>3. \A m \in Number : resource'[m].isDefault => local'[Provider!Owner(m)'] = Nothing
        BY <1>7
    <2>4. \A s, t \in Service : s # t /\ resource'[s].isDefault /\ resource'[t].isDefault =>
             resource'[s].account # resource'[t].account
        BY <2>1 DEF RowsInv, Provider!OneDefault
    <2> QED BY <1>2, <2>2, <2>3, <2>4 DEF RowsInv, Provider!OneDefault
<1>9. \A q \in Provider!Resource : resource'[q].isDefault => resource[q].status = "VERIFIED"
    BY <1>3 DEF RowsInv, Provider!RevokedIsOut
<1> QED BY <1>2, <1>3, <1>4, <1>5, <1>8, <1>9, DefaultsKeepRows

\* An import: what is selected is bound to the account; of a kind it takes the
\* default of, the old default is deposed; the organization's own default number
\* stays the default when it becomes the carrier's.
LEMMA ImportKeepsRows ==
    ASSUME RowsInv, TasksInv, NEW w \in Worker, NEW selected \in SUBSET Provider!Resource,
           NEW defaults \in SUBSET Provider!Resource, Provider!Import(w, selected, defaults)
    PROVE  RowsInv'
<1> DEFINE a == task[w].account
           o == account[a].org
           Deposed == UNION {Provider!Peers(d, a) : d \in defaults}
           Asked(r) == \E d \in defaults : {d, r} \subseteq Number \/ {d, r} \subseteq Service
           chosen(r) == IF Asked(r) THEN r \in defaults ELSE resource[r].isDefault \/ local[o] = r
<1>1. /\ account \in [Account -> AccountRow] /\ resource \in [Provider!Resource -> ResourceRow]
      /\ local \in [Org -> Number \cup {Nothing}]
    BY DEF RowsInv
<1>2. a \in Account /\ Provider!Verified(a) /\ Provider!Current(w)
    BY DEF Provider!Import, Provider!SameGeneration, Provider!Ready, TasksInv, TasksInOrder
<1>3. o \in Org /\ Provider!Live(a) /\ account[a].status # "none"
    BY <1>1, <1>2 DEF Provider!Verified, Provider!Live, RowsInv, RowsInOrder, AccountRow
<1>4. /\ resource' = [r \in Provider!Resource |->
             IF r \in selected
             THEN [account |-> a, status |-> "VERIFIED", fresh |-> Provider!Current(w),
                   isDefault |-> chosen(r)]
             ELSE IF r \in Deposed THEN [resource[r] EXCEPT !.isDefault = FALSE]
             ELSE resource[r]]
      /\ local' = (IF defaults \cap Number # {} \/ local[o] \in selected
                   THEN [local EXCEPT ![o] = Nothing] ELSE local)
      /\ UNCHANGED account
      /\ selected \subseteq Provider!Resource /\ defaults \subseteq selected
      /\ \A d, e \in defaults : {d, e} \subseteq Number \/ {d, e} \subseteq Service => d = e
      /\ \A r \in selected : resource[r].status = "none" \/ Provider!Bound(r, a)
    BY DEF Provider!Import
<1>5. \A r \in Provider!Resource : resource[r].isDefault \in BOOLEAN BY <1>1 DEF ResourceRow
<1>6. ASSUME NEW q \in selected
      PROVE  /\ resource'[q] \in ResourceRow
             /\ resource'[q].account = a /\ resource'[q].status = "VERIFIED"
             /\ resource'[q].fresh
             /\ resource'[q].isDefault = chosen(q)
    <2>1. chosen(q) \in BOOLEAN
        <3> HIDE DEF Asked, o
        <3>1. CASE Asked(q) BY <3>1
        <3>2. CASE ~Asked(q) BY <3>2
        <3> QED BY <3>1, <3>2
    <2>2. resource'[q] = [account |-> a, status |-> "VERIFIED", fresh |-> Provider!Current(w),
                          isDefault |-> chosen(q)]
        BY <1>4
    <2> HIDE DEF chosen, a
    <2> QED BY <1>2, <2>1, <2>2 DEF ResourceRow
<1>7. ASSUME NEW q \in Provider!Resource \ selected
      PROVE  /\ resource'[q] \in ResourceRow
             /\ resource'[q].account = resource[q].account
             /\ resource'[q].status = resource[q].status
             /\ resource'[q].fresh = resource[q].fresh
             /\ resource'[q].isDefault => resource[q].isDefault /\ q \notin Deposed
    <2>1. resource'[q] = IF q \in Deposed THEN [resource[q] EXCEPT !.isDefault = FALSE]
                         ELSE resource[q]
        BY <1>4
    <2> HIDE DEF Deposed
    <2>2. resource[q] \in ResourceRow BY <1>1
    <2>3. CASE q \in Deposed
        <3>1. resource'[q] = [resource[q] EXCEPT !.isDefault = FALSE] BY <2>1, <2>3
        <3> QED BY <2>2, <3>1, DefaultRow
    <2>4. CASE q \notin Deposed BY <2>1, <2>2, <2>4
    <2> QED BY <2>3, <2>4
<1>8. resource' \in [Provider!Resource -> ResourceRow]
    <2>1. resource' = [q \in Provider!Resource |-> resource'[q]] BY <1>4
    <2> QED BY <1>6, <1>7, <2>1
<1>9. local' \in [Org -> Number \cup {Nothing}] BY <1>1, <1>4
<1>10. Number \subseteq Provider!Resource /\ Service \subseteq Provider!Resource /\
             Number \cap Service = {}
       /\ Nothing \notin Number \cup Service
    BY ProviderConstants DEF Provider!Resource
<1>11. \A q \in selected : resource[q].isDefault => resource[q].account = a
    BY <1>4, DefaultsAreBound DEF Provider!Bound
<1>12. ASSUME NEW q \in Number, resource'[q].isDefault
       PROVE  \/ /\ q \in selected /\ Provider!Owner(q)' = o
                 /\ q \in defaults \/ local[o] = q
                 /\ defaults \cap Number # {} => q \in defaults
              \/ /\ resource[q].isDefault /\ Provider!Owner(q)' = Provider!Owner(q)
                 /\ defaults \cap Number # {} => Provider!Owner(q) # o
    <2>1. CASE q \in selected
        <3>1. Provider!Owner(q)' = o BY <1>4, <1>6, <2>1 DEF Provider!Owner
        <3>2. chosen(q) BY <1>6, <1>12, <2>1
        <3>3. defaults \cap Number # {} => Asked(q) BY <1>10
        <3>4. resource[q].isDefault => Provider!Owner(q) = o BY <1>11, <2>1 DEF Provider!Owner
        <3> QED BY <2>1, <3>1, <3>2, <3>3, <3>4
    <2>2. CASE q \notin selected
        <3>1. resource[q].isDefault /\ Provider!Owner(q)' = Provider!Owner(q) /\ q \notin Deposed
            BY <1>4, <1>7, <1>10, <1>12, <2>2 DEF Provider!Owner
        <3>2. \A d \in defaults \cap Number : Provider!Peers(d, a) = Provider!NumbersOf(o)
            BY DEF Provider!Peers
        <3>3. defaults \cap Number # {} => q \notin Provider!NumbersOf(o) BY <3>1, <3>2
        <3>4. q \in Provider!NumbersOf(Provider!Owner(q)) BY <1>10, <3>1, DefaultsArePeers
        <3> QED BY <3>1, <3>3, <3>4
    <2> QED BY <2>1, <2>2
<1>13. ASSUME NEW q \in Service, resource'[q].isDefault
       PROVE  \/ q \in selected /\ resource'[q].account = a /\ q \in defaults
              \/ /\ resource[q].isDefault /\ resource'[q].account = resource[q].account
                 /\ defaults \cap Service # {} => resource[q].account # a
    <2>1. CASE q \in selected
        <3>1. chosen(q) /\ resource'[q].account = a BY <1>6, <1>13, <2>1
        <3>2. defaults \cap Service # {} => Asked(q) BY <1>10
        <3>3. local[o] # q BY <1>1, <1>3, <1>10
        <3> QED BY <1>11, <2>1, <3>1, <3>2, <3>3
    <2>2. CASE q \notin selected
        <3>1. resource[q].isDefault /\ resource'[q].account = resource[q].account /\ q \notin Deposed
            BY <1>7, <1>10, <1>13, <2>2
        <3>2. \A d \in defaults \cap Service : Provider!Peers(d, a) = {p \in Service : Provider!Bound(p, a)}
            BY <1>10 DEF Provider!Peers
        <3>3. defaults \cap Service # {} => ~Provider!Bound(q, a) BY <3>1, <3>2
        <3> QED BY <3>1, <3>3 DEF Provider!Bound
    <2> QED BY <2>1, <2>2
<1> HIDE DEF chosen, Asked, Deposed
<1>14. ASSUME NEW m \in Number, NEW n \in Number, m # n,
              resource'[m].isDefault, resource'[n].isDefault
       PROVE  Provider!Owner(m)' # Provider!Owner(n)'
    <2>1. resource[m].isDefault /\ resource[n].isDefault => Provider!Owner(m) # Provider!Owner(n)
        BY <1>14 DEF RowsInv, Provider!OneDefault
    <2>2. m \in defaults /\ n \in defaults => m = n BY <1>4
    <2>3. \A q \in Number : resource[q].isDefault => local[Provider!Owner(q)] = Nothing
        BY DEF RowsInv, Provider!OneDefault
    <2>4. m \in defaults \/ n \in defaults => defaults \cap Number # {} OBVIOUS
    <2> QED BY <1>10, <1>12, <1>14, <2>1, <2>2, <2>3, <2>4
<1>15. ASSUME NEW n \in Number, resource'[n].isDefault
       PROVE  local'[Provider!Owner(n)'] = Nothing
    <2>1. CASE /\ n \in selected /\ Provider!Owner(n)' = o
               /\ n \in defaults \/ local[o] = n
        BY <1>1, <1>3, <1>4, <2>1
    <2>2. CASE resource[n].isDefault /\ Provider!Owner(n)' = Provider!Owner(n)
        <3>1. local[Provider!Owner(n)] = Nothing /\ Provider!Owner(n) \in Org
            BY <1>10, <2>2, DefaultsAreBound DEF RowsInv, Provider!OneDefault
        <3> QED BY <1>1, <1>4, <2>2, <3>1
    <2> QED BY <1>12, <1>15, <2>1, <2>2
<1>16. ASSUME NEW s \in Service, NEW t \in Service, s # t,
              resource'[s].isDefault, resource'[t].isDefault
       PROVE  resource'[s].account # resource'[t].account
    <2>1. resource[s].isDefault /\ resource[t].isDefault => resource[s].account # resource[t].account
        BY <1>16 DEF RowsInv, Provider!OneDefault
    <2>2. s \in defaults /\ t \in defaults => s = t BY <1>4
    <2>3. s \in defaults \/ t \in defaults => defaults \cap Service # {} OBVIOUS
    <2> QED BY <1>13, <1>16, <2>1, <2>2, <2>3
<1>17. Provider!OneDefault' BY <1>4, <1>14, <1>15, <1>16 DEF RowsInv, Provider!OneDefault
<1>18. RowsInOrder'
    <2>1. ASSUME NEW q \in Provider!Resource
          PROVE  /\ resource'[q].status = "none" <=> resource'[q].account = Nothing
                 /\ \A b \in Account : resource'[q].account = b => account[b].status # "none"
        <3>1. CASE q \in selected BY <1>2, <1>3, <1>6, <3>1, ProviderConstants
        <3>2. CASE q \notin selected BY <1>7, <3>2 DEF RowsInv, RowsInOrder, Provider!Bound
        <3> QED BY <3>1, <3>2
    <2> QED BY <1>4, <2>1 DEF RowsInv, RowsInOrder, Provider!Bound
<1>19. Provider!RevokedIsOut'
    <2>1. ASSUME NEW q \in Provider!Resource
          PROVE  /\ resource'[q].isDefault => resource'[q].status = "VERIFIED"
                 /\ resource'[q].status = "VERIFIED" =>
                       account[resource'[q].account].status \in {"VERIFIED", "DEGRADED"}
        <3>1. CASE q \in selected BY <1>3, <1>6, <3>1 DEF Provider!Live
        <3>2. CASE q \notin selected BY <1>7, <3>2 DEF RowsInv, Provider!RevokedIsOut, Provider!Live
        <3> QED BY <3>1, <3>2
    <2> QED BY <1>4, <2>1 DEF RowsInv, Provider!RevokedIsOut, Provider!Live
<1>20. Provider!AnswersAreCurrent'
    BY <1>4, <1>6, <1>7 DEF RowsInv, Provider!AnswersAreCurrent
<1> QED BY <1>4, <1>8, <1>9, <1>17, <1>18, <1>19, <1>20, <1>1 DEF RowsInv

-----------------------------------------------------------------------------
\* The tasks: what a callback rechecked stands while it commits.

\* Who writes waits for the callbacks that hold the row; so they keep their
\* authority whatever the step, unless it is their own.
LEMMA WaitKeepsTasks ==
    ASSUME TasksInv, Provider!WritesWait, task' \in [Worker -> TaskRow], asked' \in Nat,
           \A v \in Worker :
              \/ task'[v] = task[v]
              \/ /\ task'[v].kind # "persisting"
                 /\ task'[v].kind # "idle" => task'[v].account \in Account
                 /\ task'[v].kind = "callback" => task'[v].number \in Number
    PROVE  TasksInv'
<1>1. TasksInOrder' BY DEF TasksInv, TasksInOrder
<1>2. ASSUME NEW v \in Worker, task'[v].kind = "persisting" PROVE Provider!Authority(v)'
    <2> DEFINE a == task[v].account
               n == task[v].number
    <2>1. task'[v] = task[v] /\ task[v].kind = "persisting" BY <1>2
    <2>2. a \in Account /\ n \in Provider!Resource
        BY <2>1 DEF TasksInv, TasksInOrder, Provider!Resource
    <2>3. Provider!Authority(v) BY <2>1 DEF TasksInv, Provider!CallbacksKeepAuthority
    <2>4. account'[a] = account[a]
        BY <2>1, <2>2 DEF Provider!WritesWait, Provider!AccountsWait, Provider!Held
    <2>5. resource'[n] = resource[n]
        BY <2>1, <2>2 DEF Provider!WritesWait, Provider!ResourcesWait, Provider!HeldNumber
    <2> QED BY <2>1, <2>3, <2>4, <2>5 DEF Provider!Authority, Provider!Verified,
        Provider!Current, Provider!Bound
<1>3. Provider!CallbacksKeepAuthority' BY <1>2 DEF Provider!CallbacksKeepAuthority
<1> QED BY <1>1, <1>3 DEF TasksInv

LEMMA IdleTask == Provider!Idle \in TaskRow /\ Provider!Idle.kind = "idle"
BY DEF Provider!Idle, TaskRow

LEMMA EndKeepsTasks ==
    ASSUME TasksInv, Provider!WritesWait, NEW w \in Worker, Provider!End(w)
    PROVE  TasksInv'
<1>1. task \in [Worker -> TaskRow] /\ asked \in Nat BY DEF TasksInv
<1>2. task' = [task EXCEPT ![w] = Provider!Idle] /\ asked' = asked BY DEF Provider!End
<1> QED BY <1>1, <1>2, IdleTask, WaitKeepsTasks

LEMMA BeginKeepsTasks ==
    ASSUME TasksInv, UNCHANGED <<account, resource>>, NEW w \in Worker, NEW what \in TaskRow,
           Provider!Begin(w, what), what.kind # "persisting", what.account \in Account,
           what.kind = "callback" => what.number \in Number
    PROVE  TasksInv'
<1>1. task \in [Worker -> TaskRow] /\ asked \in Nat BY DEF TasksInv
<1>2. task' = [task EXCEPT ![w] = what] /\ asked' = asked + 1 BY DEF Provider!Begin
<1>3. Provider!WritesWait BY DEF Provider!WritesWait, Provider!AccountsWait, Provider!ResourcesWait
<1> QED BY <1>1, <1>2, <1>3, WaitKeepsTasks

LEMMA SameRows ==
    ASSUME RowsInv, UNCHANGED <<account, resource, local>>
    PROVE  RowsInv' /\ Provider!WritesWait
BY DEF RowsInv, RowsInOrder, Provider!RevokedIsOut, Provider!OneDefault,
       Provider!AnswersAreCurrent, Provider!Bound, Provider!Live, Provider!Owner,
       Provider!WritesWait, Provider!AccountsWait, Provider!ResourcesWait

LEMMA SameTasks ==
    ASSUME TasksInv, Provider!WritesWait, UNCHANGED <<task, asked>>
    PROVE  TasksInv'
BY WaitKeepsTasks DEF TasksInv

-----------------------------------------------------------------------------
\* The steps.

LEMMA LoadKeeps ==
    ASSUME PInv, NEW w \in Worker, NEW job \in {"rotate", "verify", "health", "import"},
           NEW a \in Account, Provider!Load(w, job, a)
    PROVE  PInv'
<1>1. PICK healthy \in BOOLEAN, found \in SUBSET Provider!Resource :
         Provider!Begin(w, [Provider!Idle EXCEPT !.kind = job, !.account = a, !.version = account[a].version,
                               !.healthy = healthy, !.found = found])
    BY DEF Provider!Load
<1> DEFINE what == [Provider!Idle EXCEPT !.kind = job, !.account = a, !.version = account[a].version,
                                !.healthy = healthy, !.found = found]
<1>2. account[a].version \in Nat BY DEF PInv, RowsInv, AccountRow
<1>3. what \in TaskRow /\ what.kind = job /\ what.account = a
    BY <1>2 DEF Provider!Idle, TaskRow
<1>4. UNCHANGED <<account, resource, local>> BY DEF Provider!Load
<1> HIDE DEF what
<1>5. Provider!Begin(w, what) BY <1>1 DEF what
<1>6. TasksInv' BY <1>3, <1>4, <1>5, BeginKeepsTasks DEF PInv
<1>7. RowsInv' BY <1>4, SameRows DEF PInv
<1> QED BY <1>6, <1>7 DEF PInv

LEMMA AuthenticateKeeps ==
    ASSUME PInv, NEW w \in Worker, NEW r \in Number, Provider!Authenticate(w, r)
    PROVE  PInv'
<1> DEFINE a == resource[r].account
           what == [Provider!Idle EXCEPT !.kind = "callback", !.account = a, !.number = r,
                                !.version = account[a].version]
<1>1. Provider!Begin(w, what) /\ UNCHANGED <<account, resource, local>> /\
            resource[r].status = "VERIFIED"
    BY DEF Provider!Authenticate
<1>2. r \in Provider!Resource BY DEF Provider!Resource
<1>3. a \in Account BY <1>1, <1>2 DEF PInv, RowsInv, RowsInOrder, ResourceRow
<1>4. account[a].version \in Nat BY <1>3 DEF PInv, RowsInv, AccountRow
<1> HIDE DEF a
<1>5. what \in TaskRow /\ what.kind = "callback" /\ what.account = a /\ what.number = r
    BY <1>3, <1>4 DEF Provider!Idle, TaskRow
<1> HIDE DEF what
<1>6. TasksInv' BY <1>1, <1>3, <1>5, BeginKeepsTasks DEF PInv
<1>7. RowsInv' BY <1>1, SameRows DEF PInv
<1> QED BY <1>6, <1>7 DEF PInv

LEMMA RecheckKeeps ==
    ASSUME PInv, NEW w \in Worker, Provider!Recheck(w)
    PROVE  PInv'
<1>1. task' = [task EXCEPT ![w].kind = "persisting"] /\ task[w].kind = "callback"
      /\ Provider!Authority(w) /\ UNCHANGED <<account, resource, local, asked>>
    BY DEF Provider!Recheck
<1>2. task \in [Worker -> TaskRow] /\ asked \in Nat /\ task[w] \in TaskRow
    BY DEF PInv, TasksInv
<1> DEFINE old == task[w]
           told == [old EXCEPT !.kind = "persisting"]
<1>3. old \in TaskRow BY <1>2
<1>4. task' = [task EXCEPT ![w] = told] BY <1>1
<1> HIDE DEF old
<1>5. told \in TaskRow /\ told.account = old.account /\ told.number = old.number
      /\ told.version = old.version /\ told.kind = "persisting"
    BY <1>3 DEF TaskRow
<1> HIDE DEF told
<1>6. task' \in [Worker -> TaskRow] /\ task'[w] = told BY <1>2, <1>4, <1>5
<1>7. \A v \in Worker \ {w} : task'[v] = task[v] BY <1>2, <1>4
<1>8. old.account \in Account /\ old.number \in Number
    BY <1>1 DEF PInv, TasksInv, TasksInOrder, old
<1>9. TasksInOrder' BY <1>5, <1>6, <1>7, <1>8 DEF PInv, TasksInv, TasksInOrder
<1>10. Provider!CallbacksKeepAuthority'
    <2>1. Provider!Authority(w)'
        BY <1>1, <1>5, <1>6 DEF old, Provider!Authority, Provider!Verified, Provider!Current,
               Provider!Bound
    <2>2. ASSUME NEW v \in Worker \ {w}, task[v].kind = "persisting" PROVE Provider!Authority(v)'
        <3>1. Provider!Authority(v) BY <2>2 DEF PInv, TasksInv, Provider!CallbacksKeepAuthority
        <3> QED BY <1>1, <1>7, <3>1 DEF Provider!Authority, Provider!Verified, Provider!Current,
            Provider!Bound
    <2> QED BY <1>7, <2>1, <2>2 DEF Provider!CallbacksKeepAuthority
<1>11. RowsInv' BY <1>1, SameRows DEF PInv
<1> QED BY <1>1, <1>2, <1>6, <1>9, <1>10, <1>11 DEF PInv, TasksInv

LEMMA RotateKeeps ==
    ASSUME PInv, NEW w \in Worker, Provider!Rotate(w)
    PROVE  PInv'
<1> DEFINE a == task[w].account
           old == account[a]
           next == old.version + 1
           entry == [old EXCEPT !.status = "VERIFIED", !.fresh = TRUE, !.version = next]
<1>1. a \in Account /\ Provider!Live(a) /\ old \in AccountRow
    BY DEF Provider!Rotate, Provider!SameGeneration, Provider!Ready, PInv, TasksInv,
           TasksInOrder, RowsInv
<1>2. account' = [account EXCEPT ![a] = entry] /\ UNCHANGED <<resource, local>>
      /\ Provider!End(w) /\ Provider!WritesWait
    BY DEF Provider!Rotate
<1> HIDE DEF old
<1>3. next \in Nat BY <1>1 DEF AccountRow
<1> HIDE DEF next
<1>4. entry \in AccountRow /\ entry.org = old.org /\ entry.isDefault = old.isDefault
      /\ entry.status = "VERIFIED" /\ entry.fresh = TRUE
    BY <1>1, <1>3 DEF AccountRow
<1> HIDE DEF entry
<1>5. RowsInv' BY <1>1, <1>2, <1>4, RefreshKeepsRows DEF PInv, old
<1> QED BY <1>2, <1>5, EndKeepsTasks DEF PInv

LEMMA RecordKeeps ==
    ASSUME PInv, NEW w \in Worker, NEW status \in {"VERIFIED", "DEGRADED"}, Provider!Record(w, status),
           task[w].kind \in {"verify", "health"}
    PROVE  PInv'
<1> DEFINE a == task[w].account
           old == account[a]
           entry == [old EXCEPT !.status = status, !.fresh = Provider!Current(w)]
<1>1. a \in Account /\ Provider!Live(a) /\ old \in AccountRow /\ Provider!Current(w) = TRUE
    BY DEF Provider!Record, Provider!SameGeneration, Provider!Ready, PInv, TasksInv,
           TasksInOrder, RowsInv, Provider!Current
<1>2. account' = [account EXCEPT ![a] = entry] /\ UNCHANGED <<resource, local>>
      /\ Provider!End(w) /\ Provider!WritesWait
    BY DEF Provider!Record
<1> HIDE DEF old
<1>3. entry \in AccountRow /\ entry.org = old.org /\ entry.isDefault = old.isDefault
      /\ entry.status = status /\ entry.fresh = TRUE
    BY <1>1 DEF AccountRow
<1> HIDE DEF entry
<1>4. RowsInv' BY <1>1, <1>2, <1>3, RefreshKeepsRows DEF PInv, old
<1> QED BY <1>2, <1>4, EndKeepsTasks DEF PInv

LEMMA ProviderStep == PInv /\ [Provider!Next]_(Provider!vars) => PInv'
<1> SUFFICES ASSUME PInv, [Provider!Next]_(Provider!vars) PROVE PInv' OBVIOUS
<1>1. ASSUME NEW w \in Worker, NEW job \in {"rotate", "verify", "health", "import"},
             NEW a \in Account, Provider!Load(w, job, a)
      PROVE  PInv'
    BY <1>1, LoadKeeps
<1>2. ASSUME NEW w \in Worker, NEW selected \in SUBSET Provider!Resource, NEW defaults \in SUBSET Provider!Resource,
             Provider!Import(w, selected, defaults)
      PROVE  PInv'
    BY <1>2, ImportKeepsRows, EndKeepsTasks DEF PInv, Provider!Import
<1>3. ASSUME NEW w \in Worker, NEW r \in Number, Provider!Authenticate(w, r) PROVE PInv'
    BY <1>3, AuthenticateKeeps
<1>4. ASSUME NEW w \in Worker, Provider!Rotate(w) \/ Provider!RecordVerification(w) \/ Provider!RecordHealth(w)
      PROVE PInv'
    BY <1>4, RotateKeeps, RecordKeeps DEF Provider!RecordVerification, Provider!RecordHealth
<1>5. ASSUME NEW w \in Worker, Provider!Recheck(w) PROVE PInv' BY <1>5, RecheckKeeps
<1>6. ASSUME NEW w \in Worker, Provider!Persist(w) \/ Provider!GiveUp(w) PROVE PInv'
    BY <1>6, SameRows, EndKeepsTasks DEF PInv, Provider!Persist, Provider!GiveUp
<1>7. ASSUME NEW o \in Org, NEW a \in Account, NEW isDefault \in BOOLEAN,
             Provider!Connect(o, a, isDefault)
      PROVE  PInv'
    BY <1>7, ConnectKeepsRows, SameTasks DEF PInv, Provider!Connect
<1>8. ASSUME NEW a \in Account, Provider!SetDefault(a) PROVE PInv'
    BY <1>8, SetDefaultKeepsRows, SameTasks DEF PInv, Provider!SetDefault
<1>9. ASSUME NEW a \in Account, Provider!Revoke(a) PROVE PInv'
    BY <1>9, RevokeKeepsRows, SameTasks DEF PInv, Provider!Revoke
<1>10. ASSUME NEW r \in Provider!Resource, Provider!MakeDefault(r) PROVE PInv'
    BY <1>10, MakeDefaultKeepsRows, SameTasks DEF PInv, Provider!MakeDefault
<1>11. ASSUME NEW r \in Provider!Resource, Provider!Disable(r) PROVE PInv'
    BY <1>11, DisableKeepsRows, SameTasks DEF PInv, Provider!Disable
<1>12. ASSUME NEW o \in Org, NEW n \in Number, NEW isDefault \in BOOLEAN,
              Provider!Upsert(o, n, isDefault)
       PROVE  PInv'
    BY <1>12, UpsertKeepsRows, SameTasks DEF PInv, Provider!Upsert
<1>13. CASE UNCHANGED Provider!vars
    BY <1>13, SameRows, SameTasks DEF PInv, Provider!vars
<1> QED BY <1>1, <1>2, <1>3, <1>4, <1>5, <1>6, <1>7, <1>8, <1>9, <1>10, <1>11, <1>12, <1>13
    DEF Provider!Next

LEMMA ProviderInit == Provider!Init => PInv
<1> SUFFICES ASSUME Provider!Init PROVE PInv OBVIOUS
<1> USE DEF Provider!Init
<1>1. Provider!NoAccount \in AccountRow /\ Provider!NoResource \in ResourceRow
    BY DEF Provider!NoAccount, AccountRow, Provider!NoResource, ResourceRow
<1>2. RowsInv
    <2>1. /\ account \in [Account -> AccountRow] /\ resource \in [Provider!Resource -> ResourceRow]
          /\ local \in [Org -> Number \cup {Nothing}]
        BY <1>1
    <2>2. \A a \in Account : account[a].status = "none" /\ account[a].org = Nothing
                             /\ account[a].isDefault = FALSE /\ account[a].fresh
        BY DEF Provider!NoAccount
    <2>3. \A r \in Provider!Resource : resource[r].status = "none" /\ resource[r].account = Nothing
                              /\ resource[r].isDefault = FALSE /\ resource[r].fresh
        BY DEF Provider!NoResource
    <2>4. Number \subseteq Provider!Resource /\ Service \subseteq Provider!Resource
        BY DEF Provider!Resource
    <2> HIDE DEF Provider!Init
    <2>5. RowsInOrder BY <2>2, <2>3, ProviderConstants DEF RowsInOrder, Provider!Bound
    <2>6. Provider!RevokedIsOut BY <2>2, <2>3 DEF Provider!RevokedIsOut
    <2>7. Provider!OneDefault BY <2>2, <2>3, <2>4 DEF Provider!OneDefault
    <2>8. Provider!AnswersAreCurrent BY <2>2, <2>3 DEF Provider!AnswersAreCurrent
    <2> QED BY <2>1, <2>5, <2>6, <2>7, <2>8 DEF RowsInv
<1>3. TasksInv
    BY IdleTask DEF TasksInv, TasksInOrder, Provider!CallbacksKeepAuthority
<1> QED BY <1>2, <1>3 DEF PInv

\* The accounts alone keep their authority.
LEMMA ProviderSafe == Provider!Spec => []Provider!AuthorityIsCurrent
<1>1. PInv => Provider!AuthorityIsCurrent
    BY DEF PInv, RowsInv, TasksInv, Provider!AuthorityIsCurrent
<1> QED BY <1>1, ProviderInit, ProviderStep, PTL DEF Provider!Spec

-----------------------------------------------------------------------------
(* Status callbacks: StatusProjection.                                       *)

\* The order of the statuses, spelled out.
LEMMA Groups ==
    /\ Len(Projection!ProgressiveGroups) = 6
    /\ Projection!ProgressiveGroups[1] = {"scheduled", "accepted"}
    /\ Projection!ProgressiveGroups[2] = {"queued", "receiving"}
    /\ Projection!ProgressiveGroups[3] = {"sending"}
    /\ Projection!ProgressiveGroups[4] = {"sent"}
    /\ Projection!ProgressiveGroups[5] = {"delivered", "received"}
    /\ Projection!ProgressiveGroups[6] = {"read"}
BY DEF Projection!ProgressiveGroups

LEMMA InUpToGroup ==
    ASSUME NEW i \in 1 .. 6, NEW s
    PROVE  s \in Projection!UpToGroup(i) <=> \E j \in 1 .. i : s \in Projection!ProgressiveGroups[j]
BY DEF Projection!UpToGroup

Rank(s) == CASE s \in {"scheduled", "accepted"} -> 1
             [] s \in {"queued", "receiving"} -> 2
             [] s = "sending" -> 3
             [] s = "sent" -> 4
             [] s \in {"delivered", "received"} -> 5
             [] s = "read" -> 6
             [] OTHER -> 7

LEMMA Ranks ==
    ASSUME NEW s, NEW i \in 1 .. 6
    PROVE  /\ s \in Projection!ProgressiveGroups[i] <=> Rank(s) = i
           /\ Rank(s) \in 1 .. 7
BY Groups DEF Rank

LEMMA UpToRank ==
    ASSUME NEW s, NEW i \in 1 .. 6
    PROVE  s \in Projection!UpToGroup(i) <=> Rank(s) <= i
<1>1. s \in Projection!UpToGroup(i) <=> \E j \in 1 .. i : Rank(s) = j
    BY InUpToGroup, Ranks
<1> QED BY <1>1, Ranks

LEMMA GroupIsRank ==
    ASSUME NEW s, Rank(s) # 7
    PROVE  Projection!GroupOf(s) = Rank(s)
<1>1. \A i \in 1 .. 6 : s \in Projection!ProgressiveGroups[i] <=> Rank(s) = i BY Ranks
<1>2. Rank(s) \in 1 .. 6 BY Ranks
<1> QED BY <1>1, <1>2, Groups DEF Projection!GroupOf

LEMMA Members ==
    ASSUME NEW s
    PROVE  /\ s \in Projection!Progressive <=> Rank(s) # 7
           /\ s \in Projection!Failures => Rank(s) = 7
           /\ s \in Projection!Successes <=> Rank(s) \in {5, 6}
           /\ s \in Projection!Known <=> Rank(s) # 7 \/ s \in Projection!Failures
           /\ s \in Projection!Terminal <=> Rank(s) \in {5, 6} \/ s \in Projection!Failures
           /\ s # Projection!None \/ Rank(s) = 7
<1>1. Projection!Progressive = Projection!UpToGroup(6) BY Groups DEF Projection!Progressive
<1>2. s \in Projection!Progressive <=> Rank(s) # 7 BY <1>1, UpToRank, Ranks
<1> QED BY <1>2, Groups DEF Projection!Failures, Projection!Successes, Projection!Known,
    Projection!Terminal, Rank, Projection!None

\* Who may overwrite what.
LEMMA Allowed ==
    ASSUME NEW next, NEW s
    PROVE  /\ next \in Projection!Failures =>
                 (s \in Projection!AllowedKnown(next) <=> Rank(s) <= 4 \/ s = next)
           /\ Rank(next) <= 4 =>
                 (s \in Projection!AllowedKnown(next) <=> Rank(s) <= Rank(next))
           /\ Rank(next) = 5 => (s \in Projection!AllowedKnown(next) <=> Rank(s) <= 4 \/ s = next)
           /\ Rank(next) = 6 => (s \in Projection!AllowedKnown(next) <=> Rank(s) <= 6)
           /\ next \notin Projection!Known => (s \in Projection!AllowedKnown(next) <=> Rank(s) <= 2)
<1>1. CASE next \in Projection!Failures BY <1>1, Members, UpToRank DEF Projection!AllowedKnown
<1>2. CASE next \notin Projection!Known
    BY <1>2, Members, UpToRank DEF Projection!AllowedKnown, Projection!Early
<1>3. CASE Rank(next) # 7
    <2>1. Rank(next) \in 1 .. 6 /\ Rank(s) \in 1 .. 7 BY <1>3, Ranks
    <2>2. next \in Projection!Progressive /\ next \notin Projection!Failures BY <1>3, Members
    <2>3. s \in Projection!AllowedKnown(next) <=>
             /\ Rank(s) <= Rank(next)
             /\ next \in Projection!Terminal /\ s \in Projection!Terminal =>
                   s = next \/ (next = "read" /\ s \in {"delivered", "received"})
        BY <2>1, <2>2, <1>3, UpToRank, GroupIsRank DEF Projection!AllowedKnown
    <2>4. Rank(next) = 6 => next = "read" BY DEF Rank
    <2>5. Rank(s) = 6 => s = "read" BY DEF Rank
    <2>6. Rank(s) = 5 => s \in {"delivered", "received"} BY DEF Rank
    <2>7. next = "read" => Rank(next) = 6 BY DEF Rank
    <2> QED BY <1>3, <2>1, <2>2, <2>3, <2>4, <2>5, <2>6, <2>7, Members
<1> QED BY <1>1, <1>2, <1>3, Members

\* A status that may be overwritten by one that may be overwritten may be.
LEMMA AllowedTransitive ==
    ASSUME NEW x, NEW y \in Projection!Known, NEW z \in Projection!Known,
           x \in Projection!AllowedKnown(y), y \in Projection!AllowedKnown(z)
    PROVE  x \in Projection!AllowedKnown(z)
<1>1. Rank(x) \in 1 .. 7 /\ Rank(y) \in 1 .. 7 /\ Rank(z) \in 1 .. 7 BY Ranks
<1> QED BY <1>1, Allowed, Members

-----------------------------------------------------------------------------
MessageRow == [applicationStatus : Projection!ApplicationStatus, bound : BOOLEAN, shown : Projection!Shown,
               deliveredAt : BOOLEAN, failedAt : BOOLEAN]

\* While the worker waits for its response nothing was heard of the message.
NothingYet ==
    attempt.status = "PROCESSING" /\ message.applicationStatus = "PROCESSING" =>
        /\ Projection!Heard = {} /\ answered = Projection!None /\ ~message.bound
        /\ message.shown = Projection!None /\ attempt.shown = Projection!None
        /\ ~message.deliveredAt /\ ~message.failedAt

\* The rows and the reports heard, while all of them are known.
ShownIsHeard ==
    /\ message.shown \in Projection!Heard \cup {Projection!None} /\
             attempt.shown \in Projection!Heard \cup {Projection!None}
    /\ message.shown = Projection!None => Projection!Heard = {}
StampsAreShown ==
    /\ message.deliveredAt => message.shown \in Projection!Successes
    /\ message.failedAt => message.shown \in Projection!Failures
\* What may overwrite the message's status may overwrite the attempt's.
AttemptIsBehind == \A s \in Projection!Known : ~Projection!Conflicts(s)
Agreement ==
    Projection!Heard \subseteq Projection!Known
          => ShownIsHeard /\ StampsAreShown /\ AttemptIsBehind /\ Projection!FurthestReportShown

SInv == Projection!TypeOK /\ NothingYet /\ Agreement

\* The rows as a writer leaves them.
LEMMA CorrelatedRow ==
    ASSUME Projection!TypeOK, NEW s
    PROVE  /\ Projection!CorrelatedTransition(s).shown = s
           /\ Projection!CorrelatedTransition(s).bound = TRUE
           /\ Projection!CorrelatedTransition(s).applicationStatus = Projection!ApplicationStatusFor(s)
           /\ Projection!CorrelatedTransition(s).deliveredAt =
                 ((message.deliveredAt /\ s \notin Projection!Failures)
                  \/ (s \in Projection!Successes /\ s \notin Projection!Failures))
           /\ Projection!CorrelatedTransition(s).failedAt =
                 ((message.failedAt /\ ~(s \in Projection!Successes /\
                       s \notin Projection!Failures)) \/ s \in Projection!Failures)
           /\ s \in Projection!Shown => Projection!CorrelatedTransition(s) \in MessageRow
BY DEF Projection!CorrelatedTransition, Projection!TypeOK, Projection!ApplicationStatusFor,
       MessageRow, Projection!ApplicationStatus

\* What hearing one more known report comes to, taken or not.
Hears(s) == s \in Projection!Known /\ Projection!Heard \subseteq Projection!Known /\
      Projection!Heard' = Projection!Heard \cup {s}
Agrees == ShownIsHeard /\ StampsAreShown /\ AttemptIsBehind /\ Projection!FurthestReportShown

LEMMA NoneIsUnknown == Projection!None \notin Projection!Known /\ Rank(Projection!None) = 7
BY Members DEF Projection!None, Rank, Projection!Failures

\* Once an outcome was heard nothing but one is shown; before, the furthest.
Furthest(shown, reports) ==
    /\ shown \in reports
    /\ (\E h \in reports : h \in Projection!Terminal) =>
          /\ shown \in Projection!Terminal
          /\ "read" \in reports /\ (\A h \in reports : h \notin Projection!Failures) => shown = "read"
    /\ (\A h \in reports : h \notin Projection!Terminal) => \A h \in reports : Rank(h) <= Rank(shown)

LEMMA FurthestInRanks ==
    ASSUME NEW reports \in SUBSET Projection!Known, NEW shown
    PROVE  (IF reports \cap Projection!Terminal # {}
            THEN /\ shown \in reports \cap Projection!Terminal
                 /\ "read" \in reports /\ reports \cap Projection!Failures = {} => shown = "read"
            ELSE /\ shown \in reports
                 /\ \A h \in reports : Projection!GroupOf(h) <= Projection!GroupOf(shown))
           <=> Furthest(shown, reports)
<1>1. \A h : h \in Projection!Known /\ h \notin Projection!Terminal => Rank(h) # 7 BY Members
<1>2. \A h \in Projection!Known : h \notin Projection!Terminal => Projection!GroupOf(h) = Rank(h)
    BY <1>1, GroupIsRank
<1>3. CASE reports \cap Projection!Terminal # {} BY <1>3 DEF Furthest
<1>4. CASE reports \cap Projection!Terminal = {}
    <2>1. \A h \in reports : h \notin Projection!Terminal /\ Projection!GroupOf(h) = Rank(h)
        BY <1>2, <1>4
    <2> QED BY <1>4, <2>1 DEF Furthest
<1> QED BY <1>3, <1>4

\* A report the message takes: shown is s, stamped as s asks, and the attempt
\* shows it too or what it did.
LEMMA TakenAgrees ==
    ASSUME Agrees, NEW s, Hears(s), Projection!MessageAccepts(s), message'.shown = s,
           message.deliveredAt \in BOOLEAN, message.failedAt \in BOOLEAN,
           message'.deliveredAt => (message.deliveredAt /\
                 s \notin Projection!Failures) \/ s \in Projection!Successes,
           message'.failedAt => message.failedAt \/ s \in Projection!Failures,
           attempt'.shown \in {s, attempt.shown}
    PROVE  Agrees'
<1>1. /\ s \in Projection!Known /\ Projection!Heard \subseteq Projection!Known /\
               Projection!Heard' = Projection!Heard \cup {s}
      /\ s # Projection!None /\ Projection!None \notin Projection!Heard /\ Rank(s) \in 1 .. 7
    BY NoneIsUnknown, Ranks DEF Hears
<1>2. message.shown = Projection!None \/ (message.shown \in Projection!Heard /\
            message.shown \in Projection!AllowedKnown(s))
    BY <1>1 DEF Projection!MessageAccepts, Projection!UpdateGuard, Projection!StatusGuard,
           Agrees, ShownIsHeard
<1>3. ShownIsHeard' BY <1>1 DEF Agrees, ShownIsHeard
<1>4. StampsAreShown'
    <2>1. message.deliveredAt => s \in Projection!Terminal /\ s \notin Projection!Failures
        BY DEF Projection!MessageAccepts, Projection!UpdateGuard, Projection!OutcomeGuard
    <2>2. message.failedAt => s \in Projection!Terminal /\ s \notin Projection!Successes
        BY DEF Projection!MessageAccepts, Projection!UpdateGuard, Projection!OutcomeGuard
    <2> QED BY <2>1, <2>2 DEF StampsAreShown, Projection!Terminal
<1>5. AttemptIsBehind'
    <2>1. ASSUME NEW z \in Projection!Known, Projection!MessageAccepts(z)'
          PROVE Projection!StatusGuard(z, attempt'.shown)
        <3>1. s \in Projection!AllowedKnown(z)
            BY <1>1, <2>1 DEF Projection!MessageAccepts, Projection!UpdateGuard,
                   Projection!StatusGuard
        <3>2. CASE attempt'.shown = s BY <3>1, <3>2 DEF Projection!StatusGuard
        <3>3. CASE attempt'.shown = attempt.shown
            <4>1. Projection!StatusGuard(s, attempt.shown)
                BY <1>1 DEF Agrees, AttemptIsBehind, Projection!Conflicts
            <4>2. attempt.shown = Projection!None \/ attempt.shown \in Projection!Heard
                BY DEF Agrees, ShownIsHeard
            <4>3. attempt.shown = Projection!None \/ attempt.shown \in Projection!AllowedKnown(s)
                BY <1>1, <4>1, <4>2 DEF Projection!StatusGuard
            <4>4. attempt.shown = Projection!None \/ attempt.shown \in Projection!AllowedKnown(z)
                BY <1>1, <3>1, <4>3, AllowedTransitive
            <4> QED BY <3>3, <4>4 DEF Projection!StatusGuard
        <3> QED BY <3>2, <3>3
    <2> QED BY <2>1 DEF AttemptIsBehind, Projection!Conflicts
<1>6. Projection!FurthestReportShown'
    <2>1. Projection!Heard # {}
                => message.shown \in Projection!AllowedKnown(s) /\ Furthest(message.shown, Projection!Heard)
        BY <1>1, <1>2, FurthestInRanks DEF Agrees, ShownIsHeard, Projection!FurthestReportShown
    <2> USE DEF Furthest
    <2>2. Rank("read") = 6 /\ "read" \notin Projection!Failures BY DEF Rank, Projection!Failures
    <2>3. \A h : Rank(h) = 6 => h = "read" BY DEF Rank
    <2>4. (\E h \in Projection!Heard : h \in Projection!Terminal) => s \in Projection!Terminal
        <3>1. SUFFICES ASSUME NEW h \in Projection!Heard, h \in Projection!Terminal
              PROVE s \in Projection!Terminal OBVIOUS
        <3>2. message.shown \in Projection!Terminal /\ message.shown \in Projection!AllowedKnown(s)
            BY <2>1, <3>1
        <3>3. Rank(message.shown) \in 1 .. 7 BY Ranks
        <3> QED BY <1>1, <3>2, <3>3, Allowed, Members
    <2>5. "read" \in Projection!Heard' /\
                (\A h \in Projection!Heard' : h \notin Projection!Failures) => s = "read"
        <3>1. SUFFICES ASSUME "read" \in Projection!Heard, \A h \in Projection!Heard' : h \notin Projection!Failures
              PROVE s = "read"
            BY <1>1
        <3>2. "read" \in Projection!Terminal BY <2>2, Members
        <3>3. message.shown = "read" /\ message.shown \in Projection!AllowedKnown(s)
            BY <1>1, <2>1, <3>1, <3>2
        <3>4. s \notin Projection!Failures BY <1>1, <3>1
        <3> QED BY <1>1, <2>2, <2>3, <3>3, <3>4, Allowed, Members
    <2>6. (\A h \in Projection!Heard' : h \notin Projection!Terminal)
                => \A h \in Projection!Heard' : Rank(h) <= Rank(s)
        <3>1. SUFFICES ASSUME \A h \in Projection!Heard' : h \notin Projection!Terminal, NEW h \in Projection!Heard
                       PROVE  Rank(h) <= Rank(s)
            BY <1>1
        <3>2. Rank(h) <= Rank(message.shown) /\ message.shown \in Projection!AllowedKnown(s)
            BY <1>1, <2>1, <3>1
        <3>3. Rank(h) \in 1 .. 7 /\ Rank(message.shown) \in 1 .. 7 BY Ranks
        <3>4. Rank(s) <= 4 BY <1>1, <3>1, Members
        <3> QED BY <1>1, <3>2, <3>3, <3>4, Allowed
    <2>7. Projection!Heard' \subseteq Projection!Known /\ Projection!Heard' # {} BY <1>1
    <2>8. Furthest(message'.shown, Projection!Heard') BY <1>1, <2>4, <2>5, <2>6, <2>7
    <2> HIDE DEF Furthest
    <2> QED BY <2>7, <2>8, FurthestInRanks DEF Projection!FurthestReportShown
<1> QED BY <1>3, <1>4, <1>5, <1>6 DEF Agrees

\* A report the message does not take tells nothing new.
LEMMA RefusedAgrees ==
    ASSUME Agrees, NEW s, Hears(s), ~Projection!MessageAccepts(s), UNCHANGED <<message, attempt>>
    PROVE  Agrees'
<1>1. /\ s \in Projection!Known /\ Projection!Heard \subseteq Projection!Known /\
               Projection!Heard' = Projection!Heard \cup {s}
      /\ s # Projection!None /\ Projection!None \notin Projection!Heard /\ Rank(s) \in 1 .. 7
    BY NoneIsUnknown, Ranks DEF Hears
<1>2. message.shown # Projection!None
    BY DEF Projection!MessageAccepts, Projection!UpdateGuard, Projection!StatusGuard,
           Projection!OutcomeGuard, Agrees, StampsAreShown,
           Projection!Successes, Projection!Failures, Projection!None
<1>3. message.shown \in Projection!Heard /\ Furthest(message.shown, Projection!Heard)
    BY <1>1, <1>2, FurthestInRanks DEF Agrees, ShownIsHeard, Projection!FurthestReportShown
<1>4. ShownIsHeard' BY <1>1, <1>2 DEF Agrees, ShownIsHeard
<1>5. StampsAreShown' BY DEF Agrees, StampsAreShown
<1>6. AttemptIsBehind'
    BY DEF Agrees, AttemptIsBehind, Projection!Conflicts, Projection!MessageAccepts
<1>7. Rank(message.shown) \in 1 .. 7 /\ message.shown \in Projection!Known BY <1>1, <1>3, Ranks
<1>8. \/ message.shown \notin Projection!AllowedKnown(s)
      \/ s \in Projection!Failures /\ message.shown \in Projection!Successes
      \/ s \in Projection!Successes /\ message.shown \in Projection!Failures
      \/ s \notin Projection!Terminal /\ message.shown \in Projection!Terminal
    BY DEF Projection!MessageAccepts, Projection!UpdateGuard, Projection!StatusGuard,
           Projection!OutcomeGuard, Agrees, StampsAreShown, Projection!Terminal
<1>9. message.shown \notin Projection!Terminal
            => s \notin Projection!Terminal /\ Rank(s) <= Rank(message.shown)
    BY <1>1, <1>7, <1>8, Allowed, Members
<1>10. s = "read" => message.shown = "read" \/ message.shown \in Projection!Failures
    <2>1. Rank("read") = 6 BY DEF Rank
    <2> QED BY <1>1, <1>7, <1>8, <2>1, Allowed, Members
<1>11. Furthest(message.shown, Projection!Heard')
    <2> USE DEF Furthest
    <2>1. (\E h \in Projection!Heard' : h \in Projection!Terminal)
                => message.shown \in Projection!Terminal
        BY <1>1, <1>3, <1>9
    <2>2. "read" \in Projection!Heard' /\
                (\A h \in Projection!Heard' : h \notin Projection!Failures) => message.shown = "read"
        <3>1. SUFFICES ASSUME "read" \in Projection!Heard', \A h \in Projection!Heard' : h \notin Projection!Failures
                       PROVE  message.shown = "read"
            OBVIOUS
        <3>2. message.shown \notin Projection!Failures BY <1>1, <1>3, <3>1
        <3>3. CASE s = "read" BY <1>10, <3>2, <3>3
        <3>4. CASE "read" \in Projection!Heard
            <4>1. Rank("read") = 6 BY DEF Rank
            <4>2. "read" \in Projection!Terminal BY <4>1, Members
            <4> QED BY <1>1, <1>3, <3>1, <3>4, <4>2
        <3> QED BY <1>1, <3>1, <3>3, <3>4
    <2>3. (\A h \in Projection!Heard' : h \notin Projection!Terminal)
                => \A h \in Projection!Heard' : Rank(h) <= Rank(message.shown)
        BY <1>1, <1>3, <1>9
    <2> QED BY <1>1, <1>3, <2>1, <2>2, <2>3
<1>12. Projection!Heard' \subseteq Projection!Known /\ Projection!Heard' # {} /\
             message'.shown = message.shown
    BY <1>1
<1>13. Projection!FurthestReportShown'
    BY <1>11, <1>12, FurthestInRanks DEF Projection!FurthestReportShown
<1> QED BY <1>4, <1>5, <1>6, <1>13 DEF Agrees

-----------------------------------------------------------------------------
\* The writers.

LEMMA HeardGrows ==
    ASSUME NEW s \in Reports \cup ResponseStatus,
           \/ heard' = heard \cup {s} /\ UNCHANGED answered
           \/ answered = Projection!None /\ answered' = s /\ UNCHANGED heard
    PROVE  Projection!Heard' = Projection!Heard \cup {s} /\ s # Projection!None
<1>1. s # Projection!None BY ProjectionConstants, NoneIsUnknown
<1> QED BY <1>1 DEF Projection!Heard

LEMMA CorrelatedCallbackKeeps ==
    ASSUME SInv, NEW s \in Reports, Projection!CorrelatedCallback(s)
    PROVE  SInv'
<1>1. /\ heard' = heard \cup {s} /\ UNCHANGED answered /\ ~Projection!Conflicts(s)
      /\ Projection!MessageAccepts(s) =>
            /\ message' = Projection!CorrelatedTransition(s)
            /\ attempt' = [status |-> Projection!AttemptStatusFor(attempt.status, s), shown |-> s]
      /\ ~Projection!MessageAccepts(s) => UNCHANGED <<message, attempt>>
    BY DEF Projection!CorrelatedCallback
<1>2. Projection!Heard' = Projection!Heard \cup {s} /\ s # Projection!None BY <1>1, HeardGrows
<1>3. Projection!TypeOK /\ s \in Projection!Shown /\ heard' \subseteq Reports
    BY <1>1 DEF SInv, Projection!TypeOK, Projection!Shown
<1>4. ASSUME Projection!Heard' \subseteq Projection!Known
      PROVE Agrees /\ Hears(s) /\ Projection!Heard \subseteq Projection!Known
    BY <1>2, <1>4 DEF SInv, Agreement, Agrees, Hears
<1>5. CASE Projection!MessageAccepts(s)
    <2>1. /\ message'.shown = s /\ message' \in MessageRow
          /\ message'.applicationStatus # "PROCESSING"
          /\ message'.deliveredAt =>
                (message.deliveredAt /\ s \notin Projection!Failures) \/ s \in Projection!Successes
          /\ message'.failedAt => message.failedAt \/ s \in Projection!Failures
        BY <1>1, <1>3, <1>5, CorrelatedRow DEF Projection!ApplicationStatusFor
    <2>2. attempt' \in [status : Projection!AttemptStatus, shown : Projection!Shown] /\
                attempt'.shown = s
          /\ attempt'.status # "PROCESSING"
        BY <1>1, <1>3, <1>5 DEF Projection!TypeOK, Projection!AttemptStatusFor,
               Projection!AttemptStatus
    <2>3. Projection!TypeOK' BY <1>1, <1>3, <2>1, <2>2 DEF Projection!TypeOK, MessageRow
    <2>4. NothingYet' BY <2>2 DEF NothingYet
    <2>5. Projection!Heard' \subseteq Projection!Known => Agrees'
        BY <1>3, <1>4, <1>5, <2>1, <2>2, TakenAgrees DEF Projection!TypeOK
    <2> QED BY <2>3, <2>4, <2>5 DEF SInv, Agreement, Agrees
<1>6. CASE ~Projection!MessageAccepts(s)
    <2>1. message' = message /\ attempt' = attempt BY <1>1, <1>6
    <2>2. Projection!TypeOK' BY <1>1, <1>3, <2>1 DEF Projection!TypeOK
    <2>3. ~(attempt.status = "PROCESSING" /\ message.applicationStatus = "PROCESSING")
        BY <1>6 DEF SInv, NothingYet, Projection!MessageAccepts, Projection!UpdateGuard,
               Projection!StatusGuard, Projection!OutcomeGuard
    <2>4. NothingYet' BY <2>1, <2>3 DEF NothingYet
    <2>5. Projection!Heard' \subseteq Projection!Known => Agrees'
        BY <1>4, <1>6, <2>1, RefusedAgrees
    <2> QED BY <2>2, <2>4, <2>5 DEF SInv, Agreement, Agrees
<1> QED BY <1>5, <1>6

LEMMA LegacyRow ==
    ASSUME Projection!TypeOK, NEW s
    PROVE  /\ Projection!LegacyTransition(s).shown = s
           /\ Projection!LegacyTransition(s).applicationStatus = message.applicationStatus
           /\ Projection!LegacyTransition(s).deliveredAt =
                 ((message.deliveredAt /\ s \notin Projection!Failures) \/ s = "delivered")
           /\ Projection!LegacyTransition(s).failedAt =
                 ((message.failedAt /\ s # "delivered") \/ s \in Projection!Failures)
           /\ s \in Projection!Shown => Projection!LegacyTransition(s) \in MessageRow
BY DEF Projection!LegacyTransition, Projection!TypeOK, MessageRow

LEMMA LegacyCallbackKeeps ==
    ASSUME SInv, NEW s \in Reports, Projection!LegacyCallback(s)
    PROVE  SInv'
<1>1. /\ heard' = heard \cup {s} /\ UNCHANGED <<attempt, answered>> /\ message.bound
      /\ message' = IF Projection!MessageAccepts(s) THEN Projection!LegacyTransition(s) ELSE message
    BY DEF Projection!LegacyCallback
<1>2. Projection!Heard' = Projection!Heard \cup {s} /\ s # Projection!None BY <1>1, HeardGrows
<1>3. Projection!TypeOK /\ s \in Projection!Shown /\ heard' \subseteq Reports
    BY <1>1 DEF SInv, Projection!TypeOK, Projection!Shown
<1>4. ASSUME Projection!Heard' \subseteq Projection!Known
      PROVE Agrees /\ Hears(s) /\ Projection!Heard \subseteq Projection!Known
    BY <1>2, <1>4 DEF SInv, Agreement, Agrees, Hears
<1>5. ~(attempt.status = "PROCESSING" /\ message.applicationStatus = "PROCESSING")
    BY <1>1 DEF SInv, NothingYet
<1>6. message' \in MessageRow /\ message'.applicationStatus = message.applicationStatus
    BY <1>1, <1>3, LegacyRow DEF Projection!TypeOK, MessageRow
<1>7. Projection!TypeOK' BY <1>1, <1>3, <1>6 DEF Projection!TypeOK, MessageRow
<1>8. NothingYet' BY <1>1, <1>5, <1>6 DEF NothingYet
<1>9. Projection!Heard' \subseteq Projection!Known => Agrees'
    <2>1. CASE Projection!MessageAccepts(s)
        <3>1. /\ message'.shown = s
              /\ message'.deliveredAt =>
                    (message.deliveredAt /\ s \notin Projection!Failures) \/ s \in Projection!Successes
              /\ message'.failedAt => message.failedAt \/ s \in Projection!Failures
            BY <1>1, <1>3, <2>1, LegacyRow DEF Projection!Successes
        <3> QED BY <1>1, <1>3, <1>4, <2>1, <3>1, TakenAgrees DEF Projection!TypeOK
    <2>2. CASE ~Projection!MessageAccepts(s) BY <1>1, <1>4, <2>2, RefusedAgrees
    <2> QED BY <2>1, <2>2
<1> QED BY <1>7, <1>8, <1>9 DEF SInv, Agreement, Agrees

LEMMA PersistResponseKeeps ==
    ASSUME SInv, NEW s \in ResponseStatus, Projection!PersistResponse(s)
    PROVE  SInv'
<1>1. /\ Projection!Heard = {} /\ answered = Projection!None /\ message.shown = Projection!None /\
               attempt.shown = Projection!None
      /\ ~message.deliveredAt /\ ~message.failedAt
    BY DEF SInv, NothingYet, Projection!PersistResponse
<1>2. /\ attempt' = [status |-> Projection!AttemptStatusFor("PROCESSING", s), shown |-> s]
      /\ message' = [applicationStatus |-> Projection!ApplicationStatusFor(s), bound |-> TRUE, shown |-> s,
                     deliveredAt |-> Projection!ApplicationStatusFor(s) = "DELIVERED",
                     failedAt |-> Projection!ApplicationStatusFor(s) = "FAILED"]
      /\ answered' = s /\ UNCHANGED heard
    BY DEF Projection!PersistResponse
<1>3. Projection!Heard' = Projection!Heard \cup {s} /\ s # Projection!None BY <1>1, <1>2, HeardGrows
<1>4. Projection!TypeOK /\ s \in Projection!Shown BY DEF SInv, Projection!Shown
<1>5. /\ message'.shown = s /\ message' \in MessageRow
      /\ message'.applicationStatus # "PROCESSING"
      /\ message'.deliveredAt => s \in Projection!Successes
      /\ message'.failedAt => s \in Projection!Failures
    BY <1>2, <1>4 DEF MessageRow, Projection!ApplicationStatusFor, Projection!ApplicationStatus
<1>6. attempt' \in [status : Projection!AttemptStatus, shown : Projection!Shown] /\ attempt'.shown = s
    BY <1>2, <1>4 DEF Projection!AttemptStatusFor, Projection!AttemptStatus
<1>7. Projection!TypeOK' BY <1>2, <1>4, <1>5, <1>6 DEF Projection!TypeOK, MessageRow
<1>8. NothingYet' BY <1>5 DEF NothingYet
<1>9. Projection!Heard' \subseteq Projection!Known => Agrees'
    <2>1. SUFFICES ASSUME Projection!Heard' \subseteq Projection!Known PROVE Agrees' OBVIOUS
    <2>2. Agrees /\ Hears(s) BY <1>3, <2>1 DEF SInv, Agreement, Agrees, Hears
    <2>3. Projection!MessageAccepts(s)
        BY <1>1 DEF Projection!MessageAccepts, Projection!UpdateGuard, Projection!StatusGuard,
               Projection!OutcomeGuard
    <2> QED BY <1>4, <1>5, <1>6, <2>2, <2>3, TakenAgrees DEF Projection!TypeOK
<1> QED BY <1>7, <1>8, <1>9 DEF SInv, Agreement, Agrees

LEMMA LoseResponseKeeps ==
    ASSUME SInv, Projection!LoseResponse
    PROVE  SInv'
<1>1. /\ attempt' = [attempt EXCEPT !.status = "AMBIGUOUS"]
      /\ message' = [message EXCEPT !.applicationStatus = "AMBIGUOUS"]
      /\ UNCHANGED <<heard, answered>>
    BY DEF Projection!LoseResponse
<1>2. Projection!TypeOK BY DEF SInv
<1>3. Projection!TypeOK'
    BY <1>1, <1>2 DEF Projection!TypeOK, Projection!ApplicationStatus, Projection!AttemptStatus
<1>4. /\ message'.shown = message.shown /\ message'.deliveredAt = message.deliveredAt
      /\ message'.failedAt = message.failedAt /\ attempt'.shown = attempt.shown
      /\ attempt'.status = "AMBIGUOUS"
    BY <1>1, <1>2 DEF Projection!TypeOK
<1>5. Projection!Heard' = Projection!Heard BY <1>1 DEF Projection!Heard
<1>6. NothingYet' BY <1>4 DEF NothingYet
<1>7. ShownIsHeard => ShownIsHeard' BY <1>4, <1>5 DEF ShownIsHeard
<1>8. StampsAreShown => StampsAreShown' BY <1>4 DEF StampsAreShown
<1>9. AttemptIsBehind => AttemptIsBehind'
    BY <1>4 DEF AttemptIsBehind, Projection!Conflicts, Projection!MessageAccepts
<1>10. Projection!FurthestReportShown => Projection!FurthestReportShown'
    BY <1>4, <1>5 DEF Projection!FurthestReportShown
<1> QED BY <1>3, <1>5, <1>6, <1>7, <1>8, <1>9, <1>10 DEF SInv, Agreement

LEMMA ProjectionStep == SInv /\ [Projection!Next]_(Projection!vars) => SInv'
<1> SUFFICES ASSUME SInv, [Projection!Next]_(Projection!vars) PROVE SInv' OBVIOUS
<1>1. ASSUME NEW s \in ResponseStatus, Projection!PersistResponse(s) PROVE SInv'
    BY <1>1, PersistResponseKeeps
<1>2. CASE Projection!LoseResponse BY <1>2, LoseResponseKeeps
<1>3. ASSUME NEW s \in Reports, Projection!CorrelatedCallback(s) \/ Projection!LegacyCallback(s)
      PROVE SInv'
    BY <1>3, CorrelatedCallbackKeeps, LegacyCallbackKeeps
<1>4. CASE UNCHANGED Projection!vars
    BY <1>4 DEF Projection!vars, SInv, Projection!TypeOK, NothingYet, Agreement, ShownIsHeard,
           StampsAreShown,
       AttemptIsBehind, Projection!Conflicts, Projection!MessageAccepts,
       Projection!FurthestReportShown, Projection!Heard
<1> QED BY <1>1, <1>2, <1>3, <1>4 DEF Projection!Next

LEMMA ProjectionInit == Projection!Init => SInv
<1> SUFFICES ASSUME Projection!Init PROVE SInv OBVIOUS
<1>1. Projection!Heard = {} /\ message.shown = Projection!None /\ attempt.shown = Projection!None
      /\ message.deliveredAt = FALSE /\ message.failedAt = FALSE
    BY DEF Projection!Init, Projection!Heard
<1>2. Projection!TypeOK
    BY DEF Projection!Init, Projection!TypeOK, Projection!ApplicationStatus,
           Projection!AttemptStatus, Projection!Shown
<1>3. NothingYet BY <1>1 DEF Projection!Init, NothingYet
<1>4. ShownIsHeard /\ StampsAreShown /\ Projection!FurthestReportShown
    BY <1>1 DEF ShownIsHeard, StampsAreShown, Projection!FurthestReportShown
<1>5. AttemptIsBehind BY <1>1 DEF AttemptIsBehind, Projection!Conflicts, Projection!StatusGuard
<1> QED BY <1>2, <1>3, <1>4, <1>5 DEF SInv, Agreement

\* An outcome shuts out what contradicts it, whether its status is known or not.
LEMMA OutcomeStays ==
    ASSUME Projection!TypeOK, NEW s, Projection!MessageAccepts(s)
    PROVE  /\ message.shown \in Projection!Failures => s = message.shown
           /\ message.shown \in Projection!Successes => s \in Projection!Successes
           /\ message.deliveredAt => s \in Projection!Successes
           /\ message.failedAt => s \in Projection!Failures
<1> DEFINE x == message.shown
<1>1. x \in Projection!Failures \/ x \in Projection!Successes
            => x \in Projection!Known /\ x # Projection!None /\ (s \in Projection!Known \/ s \notin Projection!Known)
    BY Members, NoneIsUnknown
<1>2. x \in Projection!Failures \/ x \in Projection!Successes => x \in Projection!AllowedKnown(s)
    BY <1>1 DEF Projection!MessageAccepts, Projection!UpdateGuard, Projection!StatusGuard
<1>3. Rank(x) \in 1 .. 7 /\ Rank(s) \in 1 .. 7 BY Ranks
<1>4. x \in Projection!Failures => s = x BY <1>2, <1>3, Allowed, Members
<1>5. x \in Projection!Successes => s \in Projection!Successes BY <1>2, <1>3, Allowed, Members
<1>6. (message.deliveredAt => s \in Projection!Successes) /\ (message.failedAt
            => s \in Projection!Failures)
    BY DEF Projection!MessageAccepts, Projection!UpdateGuard, Projection!OutcomeGuard,
           Projection!Terminal
<1> QED BY <1>4, <1>5, <1>6

OutcomeStands ==
    /\ message.shown \in Projection!Failures => message'.shown = message.shown
    /\ message.shown \in Projection!Successes => message'.shown \in Projection!Successes
    /\ message.deliveredAt => message'.deliveredAt
    /\ message.failedAt => message'.failedAt

LEMMA OutcomeStep ==
    ASSUME SInv, [Projection!Next]_(Projection!vars)
    PROVE  OutcomeStands
<1>1. Projection!TypeOK BY DEF SInv
<1>2. ASSUME NEW s, Projection!MessageAccepts(s),
             message' = Projection!CorrelatedTransition(s) \/ message' = Projection!LegacyTransition(s)
      PROVE  OutcomeStands
    <2>1. /\ message'.shown = s
          /\ (message.deliveredAt /\ s \notin Projection!Failures) => message'.deliveredAt
          /\ (message.failedAt /\ s \notin Projection!Successes) => message'.failedAt
          /\ s \in Projection!Failures => message'.failedAt
        BY <1>1, <1>2, CorrelatedRow, LegacyRow DEF Projection!Successes
    <2>2. s \in Projection!Failures => s \notin Projection!Successes
        BY DEF Projection!Successes, Projection!Failures
    <2> QED BY <1>1, <1>2, <2>1, <2>2, OutcomeStays DEF OutcomeStands
<1>3. CASE UNCHANGED <<message>> BY <1>3 DEF OutcomeStands
<1>4. ASSUME NEW s \in Reports, Projection!CorrelatedCallback(s) \/ Projection!LegacyCallback(s)
      PROVE OutcomeStands
    BY <1>2, <1>3, <1>4 DEF Projection!CorrelatedCallback, Projection!LegacyCallback
<1>5. ASSUME NEW s \in ResponseStatus, Projection!PersistResponse(s) PROVE OutcomeStands
    BY <1>5, NoneIsUnknown, Members DEF SInv, NothingYet, Projection!PersistResponse,
           OutcomeStands, Projection!Known
<1>6. CASE Projection!LoseResponse
    <2>1. message' = [message EXCEPT !.applicationStatus = "AMBIGUOUS"]
        BY <1>6 DEF Projection!LoseResponse
    <2>2. /\ message'.shown = message.shown /\ message'.deliveredAt = message.deliveredAt
          /\ message'.failedAt = message.failedAt
        BY <1>1, <2>1 DEF Projection!TypeOK
    <2> QED BY <2>2 DEF OutcomeStands
<1>7. CASE UNCHANGED Projection!vars BY <1>3, <1>7 DEF Projection!vars
<1> QED BY <1>4, <1>5, <1>6, <1>7 DEF Projection!Next

\* Of the callbacks of one message alone.
LEMMA ProjectionSafe == Projection!Spec => []Projection!FurthestReportShown
<1>1. SInv => Projection!FurthestReportShown BY DEF SInv, Agreement, Projection!FurthestReportShown
<1> QED BY <1>1, ProjectionInit, ProjectionStep, PTL DEF Projection!Spec

LEMMA ProjectionNeverConflicts == Projection!Spec => []Projection!CorrelatedNeverConflicts
<1>1. SInv => Projection!CorrelatedNeverConflicts
    BY DEF SInv, Agreement, AttemptIsBehind, Projection!CorrelatedNeverConflicts
<1> QED BY <1>1, ProjectionInit, ProjectionStep, PTL DEF Projection!Spec

LEMMA ProjectionFinal == Projection!Spec => Projection!OutcomeIsFinal
<1>1. SInv /\ [Projection!Next]_(Projection!vars) => OutcomeStands BY OutcomeStep
<1> QED BY <1>1, ProjectionInit, ProjectionStep, PTL DEF Projection!Spec,
    Projection!OutcomeIsFinal, OutcomeStands

-----------------------------------------------------------------------------
(* Live test messages: LiveTestSms.                                          *)

Places == {"start", "reserve", "call", "store", "answered", "dead"}
Answers == {Nothing, "blocked", "conflict", "pending", "sent", "failed"}
Fates == {"refused", "took", "failed"}

LiveTestType ==
    /\ row.sid \in BOOLEAN /\ row.failed \in BOOLEAN
    /\ row = [by |-> row.by, sid |-> row.sid, failed |-> row.failed]
    /\ caller = [c \in Caller |-> [at |-> caller[c].at, reply |-> caller[c].reply,
                                   answer |-> caller[c].answer]]
    /\ carrier.calls \in Nat

\* The one copy that inserted the row is the one that calls the carrier, once,
\* and the one that stores the reply.
OneCalls ==
    /\ carrier.calls <= 1 /\ (carrier.calls = 0 => carrier.fate = Nothing)
    /\ row.by = Nothing => carrier.calls = 0
    /\ \A c \in Caller : caller[c].at \in {"call", "store"} =>
          /\ row.by = Says(c) /\ ~row.sid /\ ~row.failed
          /\ \A d \in Caller : caller[d].at \in {"call", "store"} => c = d
          /\ caller[c].at = "call" => carrier.calls = 0
          /\ caller[c].at = "store" =>
                carrier.fate \in Fates /\ caller[c].reply \in LiveTest!Reply(carrier.fate)

\* What the row stores is what the carrier did.
RowIsTrue ==
    /\ row.failed => carrier.fate \in {"refused", "failed"}
    /\ row.sid /\ ~row.failed => carrier.fate = "took"

AnswersTrue ==
    \A c \in Caller :
        /\ caller[c].answer = "sent" => carrier.fate = "took" /\ row.by = Says(c)
        /\ caller[c].answer = "failed" =>
              carrier.fate \in {"refused", "failed"} /\ row.by = Says(c)

LInv == LiveTestType /\ OneCalls /\ RowIsTrue /\ AnswersTrue

\* A definitive refusal is one, and only a reply that tells of the message's
\* fate is taken for it.
LEMMA RepliesTell ==
    ASSUME NEW fate \in Fates, NEW reply \in LiveTest!Reply(fate)
    PROVE  /\ LiveTest!Definitive(reply) => fate = "refused"
           /\ LiveTest!Accepted(reply) /\ reply.terminal => fate = "failed"
           /\ LiveTest!Accepted(reply) /\ ~reply.terminal => fate = "took" /\ reply.sid = TRUE
           /\ reply.sid \in BOOLEAN
BY DEF LiveTest!Reply, Fates, LiveTest!Definitive, LiveTest!Accepted

LEMMA AnswerRow ==
    ASSUME LiveTestType, NEW c \in Caller, NEW answer, LiveTest!Answer(c, answer)
    PROVE  /\ caller' = [d \in Caller |-> [at |-> caller'[d].at, reply |-> caller'[d].reply,
                                           answer |-> caller'[d].answer]]
           /\ caller'[c].at = "answered" /\ caller'[c].answer = answer
           /\ \A d \in Caller \ {c} : caller'[d] = caller[d]
<1> DEFINE old == caller[c]
           mid == [old EXCEPT !.at = "answered"]
           told == [mid EXCEPT !.answer = answer]
<1>1. old = [at |-> old.at, reply |-> old.reply, answer |-> old.answer] BY DEF LiveTestType
<1>2. caller' = [caller EXCEPT ![c] = told] BY DEF LiveTest!Answer, LiveTestType
<1> HIDE DEF old
<1>3. mid = [at |-> "answered", reply |-> old.reply, answer |-> old.answer] BY <1>1
<1> HIDE DEF mid
<1>4. told = [at |-> "answered", reply |-> old.reply, answer |-> answer] BY <1>3
<1> HIDE DEF told
<1> QED BY <1>2, <1>4 DEF LiveTestType

LEMMA GoRow ==
    ASSUME LiveTestType, NEW c \in Caller, NEW place, LiveTest!Go(c, place)
    PROVE  /\ caller' = [d \in Caller |-> [at |-> caller'[d].at, reply |-> caller'[d].reply,
                                           answer |-> caller'[d].answer]]
           /\ caller'[c].at = place /\ caller'[c].answer = caller[c].answer
           /\ \A d \in Caller \ {c} : caller'[d] = caller[d]
<1> DEFINE old == caller[c]
           told == [old EXCEPT !.at = place]
<1>1. old = [at |-> old.at, reply |-> old.reply, answer |-> old.answer] BY DEF LiveTestType
<1>2. caller' = [caller EXCEPT ![c] = told] BY DEF LiveTest!Go, LiveTestType
<1> HIDE DEF old
<1>3. told = [at |-> place, reply |-> old.reply, answer |-> old.answer] BY <1>1
<1> HIDE DEF told
<1> QED BY <1>2, <1>3 DEF LiveTestType, old

\* An answer from the row is as the carrier has it.
LEMMA StoredIsTrue ==
    ASSUME LInv, NEW c \in Caller, row.by # Nothing
    PROVE  /\ LiveTest!Stored(c) = "sent" => carrier.fate = "took" /\ row.by = Says(c)
           /\ LiveTest!Stored(c) = "failed" =>
                 carrier.fate \in {"refused", "failed"} /\ row.by = Says(c)
BY DEF LInv, RowIsTrue, LiveTest!Stored

\* A copy that answers without writing anything, as the carrier has it.
LEMMA AnswerKeeps ==
    ASSUME LInv, NEW c \in Caller, NEW answer, LiveTest!Answer(c, answer), UNCHANGED <<row, carrier>>,
           answer = "sent" => carrier.fate = "took" /\ row.by = Says(c),
           answer = "failed" => carrier.fate \in {"refused", "failed"} /\ row.by = Says(c)
    PROVE  LInv'
<1>1. /\ caller' = [d \in Caller |-> [at |-> caller'[d].at, reply |-> caller'[d].reply,
                                      answer |-> caller'[d].answer]]
      /\ caller'[c].at = "answered" /\ caller'[c].answer = answer
      /\ \A d \in Caller \ {c} : caller'[d] = caller[d]
    BY AnswerRow DEF LInv
<1>2. LiveTestType' BY <1>1 DEF LInv, LiveTestType
<1>3. OneCalls' BY <1>1 DEF LInv, OneCalls
<1>4. RowIsTrue' BY DEF LInv, RowIsTrue
<1>5. AnswersTrue' BY <1>1 DEF LInv, AnswersTrue
<1> QED BY <1>2, <1>3, <1>4, <1>5 DEF LInv

LEMMA GoKeeps ==
    ASSUME LInv, NEW c \in Caller, NEW place \in {"reserve", "dead"}, LiveTest!Go(c, place),
           UNCHANGED <<row, carrier>>
    PROVE  LInv'
<1>1. /\ caller' = [d \in Caller |-> [at |-> caller'[d].at, reply |-> caller'[d].reply,
                                      answer |-> caller'[d].answer]]
      /\ caller'[c].at = place /\ caller'[c].answer = caller[c].answer
      /\ \A d \in Caller \ {c} : caller'[d] = caller[d]
    BY GoRow DEF LInv
<1>2. LiveTestType' BY <1>1 DEF LInv, LiveTestType
<1>3. OneCalls' BY <1>1 DEF LInv, OneCalls
<1>4. RowIsTrue' BY DEF LInv, RowIsTrue
<1>5. AnswersTrue' BY <1>1 DEF LInv, AnswersTrue
<1> QED BY <1>2, <1>3, <1>4, <1>5 DEF LInv

LEMMA ReserveKeeps ==
    ASSUME LInv, NEW c \in Caller, LiveTest!Reserve(c)
    PROVE  LInv'
<1>1. CASE row.by # Nothing /\ LiveTest!Answer(c, LiveTest!Stored(c)) /\ UNCHANGED row
    BY <1>1, AnswerKeeps, StoredIsTrue DEF LiveTest!Reserve
<1>2. CASE row.by = Nothing /\ row' = [row EXCEPT !.by = Says(c)] /\ LiveTest!Go(c, "call")
    <2>1. /\ caller' = [d \in Caller |-> [at |-> caller'[d].at, reply |-> caller'[d].reply,
                                          answer |-> caller'[d].answer]]
          /\ caller'[c].at = "call" /\ caller'[c].answer = caller[c].answer
          /\ \A d \in Caller \ {c} : caller'[d] = caller[d]
        BY <1>2, GoRow DEF LInv
    <2>2. row' = [by |-> Says(c), sid |-> row.sid, failed |-> row.failed]
        BY <1>2 DEF LInv, LiveTestType
    <2>3. /\ row'.by = Says(c) /\ row'.sid = row.sid /\ row'.failed = row.failed
          /\ row' = [by |-> row'.by, sid |-> row'.sid, failed |-> row'.failed]
          /\ UNCHANGED carrier
        BY <2>2 DEF LiveTest!Reserve
    <2>4. carrier.calls = 0 /\ carrier.fate = Nothing
          /\ \A d \in Caller : caller[d].at \notin {"call", "store"}
        BY <1>2, LiveTestConstants DEF LInv, OneCalls
    <2>5. ~row.sid /\ ~row.failed
        BY <2>4, LiveTestConstants DEF LInv, RowIsTrue
    <2>6. LiveTestType' BY <2>1, <2>3 DEF LInv, LiveTestType
    <2>7. OneCalls' BY <2>1, <2>3, <2>4, <2>5, LiveTestConstants DEF LInv, OneCalls
    <2>8. RowIsTrue' BY <2>3, <2>5 DEF RowIsTrue
    <2>9. AnswersTrue' BY <2>1, <2>3, <2>4, LiveTestConstants DEF LInv, AnswersTrue
    <2> QED BY <2>6, <2>7, <2>8, <2>9 DEF LInv
<1> QED BY <1>1, <1>2 DEF LiveTest!Reserve

LEMMA CallKeeps ==
    ASSUME LInv, NEW c \in Caller, LiveTest!Call(c)
    PROVE  LInv'
<1>1. PICK fate \in Fates : \E reply \in LiveTest!Reply(fate) :
         /\ carrier' = [calls |-> carrier.calls + 1, fate |-> fate]
         /\ caller' = [caller EXCEPT ![c].at = "store", ![c].reply = reply]
    BY DEF LiveTest!Call, Fates
<1>2. PICK reply \in LiveTest!Reply(fate) :
         /\ carrier' = [calls |-> carrier.calls + 1, fate |-> fate]
         /\ caller' = [caller EXCEPT ![c].at = "store", ![c].reply = reply]
    BY <1>1
<1>3. caller[c].at = "call" /\ UNCHANGED row BY DEF LiveTest!Call
<1>4. carrier.calls = 0 /\ carrier.fate = Nothing /\ row.by = Says(c) /\ ~row.sid /\ ~row.failed
      /\ \A d \in Caller \ {c} : caller[d].at \notin {"call", "store"}
    BY <1>3 DEF LInv, OneCalls
<1> DEFINE old == caller[c]
           mid == [old EXCEPT !.at = "store"]
           told == [mid EXCEPT !.reply = reply]
<1>5. old = [at |-> old.at, reply |-> old.reply, answer |-> old.answer] BY DEF LInv, LiveTestType
<1>6. caller' = [caller EXCEPT ![c] = told] BY <1>2 DEF LInv, LiveTestType
<1> HIDE DEF old
<1>7. mid = [at |-> "store", reply |-> old.reply, answer |-> old.answer] BY <1>5
<1> HIDE DEF mid
<1>8. told = [at |-> "store", reply |-> reply, answer |-> old.answer] BY <1>7
<1> HIDE DEF told
<1>9. /\ caller' = [d \in Caller |-> [at |-> caller'[d].at, reply |-> caller'[d].reply,
                                      answer |-> caller'[d].answer]]
      /\ caller'[c].at = "store" /\ caller'[c].reply = reply /\ caller'[c].answer = caller[c].answer
      /\ \A d \in Caller \ {c} : caller'[d] = caller[d]
    BY <1>6, <1>8 DEF LInv, LiveTestType, old
<1>10. carrier'.calls = 1 /\ carrier'.fate = fate BY <1>2, <1>4
<1>11. LiveTestType' BY <1>3, <1>9, <1>10 DEF LInv, LiveTestType
<1>12. OneCalls' BY <1>3, <1>4, <1>9, <1>10, LiveTestConstants DEF LInv, OneCalls
<1>13. RowIsTrue' BY <1>3, <1>4 DEF RowIsTrue
<1>14. AnswersTrue'
    BY <1>3, <1>4, <1>9, LiveTestConstants DEF LInv, AnswersTrue
<1> QED BY <1>11, <1>12, <1>13, <1>14 DEF LInv

LEMMA StoreKeeps ==
    ASSUME LInv, NEW c \in Caller, LiveTest!Store(c)
    PROVE  LInv'
<1> DEFINE reply == caller[c].reply
           failed == LiveTest!Definitive(reply) \/ (LiveTest!Accepted(reply) /\ reply.terminal)
<1>1. caller[c].at = "store" /\ UNCHANGED carrier BY DEF LiveTest!Store
<1>2. /\ carrier.fate \in Fates /\ reply \in LiveTest!Reply(carrier.fate)
      /\ row.by = Says(c) /\ carrier.calls # 0
      /\ \A d \in Caller \ {c} : caller[d].at \notin {"call", "store"}
    BY <1>1, LiveTestConstants DEF LInv, OneCalls, Fates
<1>3. CASE LiveTest!Answer(c, "pending") /\ UNCHANGED row
    BY <1>1, <1>3, AnswerKeeps
<1>4. ASSUME failed \/ LiveTest!Accepted(reply), NEW lost \in BOOLEAN,
             row' = [row EXCEPT !.sid = reply.sid, !.failed = failed],
             LiveTest!Answer(c, IF lost THEN "pending" ELSE IF failed THEN "failed" ELSE "sent")
      PROVE  LInv'
    <2> DEFINE answer == IF lost THEN "pending" ELSE IF failed THEN "failed" ELSE "sent"
    <2>1. failed \in BOOLEAN OBVIOUS
    <2>2. /\ failed => carrier.fate \in {"refused", "failed"}
          /\ ~failed => carrier.fate = "took" /\ reply.sid = TRUE
          /\ reply.sid \in BOOLEAN
        BY <1>2, <1>4, RepliesTell
    <2> HIDE DEF failed
    <2>3. row' = [by |-> row.by, sid |-> reply.sid, failed |-> failed]
        BY <1>4 DEF LInv, LiveTestType
    <2>4. /\ row'.by = row.by /\ row'.sid = reply.sid /\ row'.failed = failed
          /\ row' = [by |-> row'.by, sid |-> row'.sid, failed |-> row'.failed]
        BY <2>3
    <2>5. /\ answer = "sent" => ~failed
          /\ answer = "failed" => failed
        OBVIOUS
    <2>6. LiveTest!Answer(c, answer) BY <1>4
    <2> HIDE DEF answer
    <2>7. /\ caller' = [d \in Caller |-> [at |-> caller'[d].at, reply |-> caller'[d].reply,
                                          answer |-> caller'[d].answer]]
          /\ caller'[c].at = "answered" /\ caller'[c].answer = answer
          /\ \A d \in Caller \ {c} : caller'[d] = caller[d]
        BY <2>6, AnswerRow DEF LInv
    <2> HIDE DEF reply
    <2>8. LiveTestType' BY <1>1, <2>1, <2>2, <2>4, <2>7 DEF LInv, LiveTestType
    <2>9. OneCalls' BY <1>1, <1>2, <2>4, <2>7, LiveTestConstants DEF LInv, OneCalls
    <2>10. RowIsTrue' BY <1>1, <2>2, <2>4 DEF RowIsTrue
    <2>11. AnswersTrue' BY <1>1, <1>2, <2>2, <2>4, <2>5, <2>7 DEF LInv, AnswersTrue
    <2> QED BY <2>8, <2>9, <2>10, <2>11 DEF LInv
<1> QED BY <1>3, <1>4 DEF LiveTest!Store

LEMMA LiveTestStep == LInv /\ [LiveTest!Next]_(LiveTest!vars) => LInv'
<1> SUFFICES ASSUME LInv, [LiveTest!Next]_(LiveTest!vars) PROVE LInv' OBVIOUS
<1>1. ASSUME NEW c \in Caller, LiveTest!Look(c) PROVE LInv'
    BY <1>1, AnswerKeeps, GoKeeps, StoredIsTrue DEF LiveTest!Look
<1>2. ASSUME NEW c \in Caller, LiveTest!Crash(c) PROVE LInv'
    BY <1>2, GoKeeps DEF LiveTest!Crash
<1>3. ASSUME NEW c \in Caller, LiveTest!Reserve(c) \/ LiveTest!Call(c) \/ LiveTest!Store(c)
      PROVE LInv'
    BY <1>3, ReserveKeeps, CallKeeps, StoreKeeps
<1>4. CASE UNCHANGED LiveTest!vars
    BY <1>4 DEF LiveTest!vars, LInv, LiveTestType, OneCalls, RowIsTrue, AnswersTrue
<1> QED BY <1>1, <1>2, <1>3, <1>4 DEF LiveTest!Next

LEMMA LiveTestInit == LiveTest!Init => LInv
<1> SUFFICES ASSUME LiveTest!Init PROVE LInv OBVIOUS
<1>1. /\ row.by = Nothing /\ row.sid = FALSE /\ row.failed = FALSE
      /\ carrier.calls = 0 /\ carrier.fate = Nothing
      /\ \A c \in Caller : caller[c].at = "start" /\ caller[c].answer = Nothing
    BY DEF LiveTest!Init
<1>2. LiveTestType BY DEF LiveTest!Init, LiveTestType
<1> QED BY <1>1, <1>2, LiveTestConstants DEF LInv, OneCalls, RowIsTrue, AnswersTrue

\* Of the copies of one live test alone.
LEMMA LiveTestSafe == LiveTest!Spec => []LiveTest!OneCallAnsweredTruly
<1>1. LInv => LiveTest!OneCallAnsweredTruly
    BY DEF LInv, OneCalls, AnswersTrue, LiveTest!OneCallAnsweredTruly
<1> QED BY <1>1, LiveTestInit, LiveTestStep, PTL DEF LiveTest!Spec

-----------------------------------------------------------------------------
(* Throttles.                                                                *)

\* A row of attempts: a block outlasts the window it was set in.
Orderly(r) ==
    /\ r.start \in Nat /\ r.attempts \in Nat
    /\ r = [start |-> r.start, attempts |-> r.attempts, blockedUntil |-> r.blockedUntil]
    /\ r.blockedUntil # Nothing => r.blockedUntil \in Nat /\ r.blockedUntil >= r.start + Window
RowInOrder == Orderly(throttle)

\* A key that counts nothing is gone.
BucketInOrder ==
    /\ now \in Nat /\ bucket.count \in Nat
    /\ bucket.expires # Nothing => bucket.expires \in Nat
    /\ bucket = [count |-> bucket.count, expires |-> bucket.expires]
    /\ bucket.count = 0 => bucket = Throttle!NoBucket
    /\ \A c \in Client : client[c].at # "counted" \/ client[c].count \in Nat

ClientsInOrder ==
    client = [c \in Client |-> [at |-> client[c].at, count |-> client[c].count]]

HInv == RowInOrder /\ BucketInOrder /\ ClientsInOrder

LEMMA Sizes == Limit \in Nat \ {0} /\ Window \in Nat \ {0} /\ Block \in Nat \ {0} /\ Nothing \notin Nat
BY ThrottleConstants

LEMMA ConsumedRow ==
    ASSUME RowInOrder, NEW t \in Nat
    PROVE  Orderly(Throttle!Consumed(throttle, t))
<1> DEFINE r == Throttle!Consumed(throttle, t)
           fresh == [start |-> t, attempts |-> 1, blockedUntil |-> Nothing]
           end == Throttle!BlockEnd(throttle, t)
           more == throttle.attempts + 1
           shut == [throttle EXCEPT !.blockedUntil = end]
           mid == [throttle EXCEPT !.attempts = more]
           open == [mid EXCEPT !.blockedUntil = Nothing]
<1>1. r = fresh \/ r = throttle \/ r = shut \/ r = open
    BY DEF Throttle!Consumed
<1>2. end \in Nat /\ end >= Throttle!WindowEnd(throttle) /\ more \in Nat
    BY Sizes DEF Throttle!BlockEnd, Throttle!WindowEnd, RowInOrder, Orderly
<1> HIDE DEF r, end, more
<1>3. shut = [start |-> throttle.start, attempts |-> throttle.attempts, blockedUntil |-> end]
    BY DEF RowInOrder, Orderly
<1>4. mid = [start |-> throttle.start, attempts |-> more, blockedUntil |-> throttle.blockedUntil]
    BY DEF RowInOrder, Orderly
<1> HIDE DEF mid
<1>5. open = [start |-> throttle.start, attempts |-> more, blockedUntil |-> Nothing]
    BY <1>4
<1> HIDE DEF shut, open
<1>6. Orderly(fresh) BY DEF Orderly
<1>7. Orderly(throttle) BY DEF RowInOrder
<1>8. Orderly(shut) BY <1>2, <1>3, Sizes DEF RowInOrder, Orderly, Throttle!WindowEnd
<1>9. Orderly(open) BY <1>2, <1>5 DEF RowInOrder, Orderly
<1> QED BY <1>1, <1>6, <1>7, <1>8, <1>9 DEF r

\* A block that is over lets in whoever comes next.
LEMMA BlockEnds ==
    ASSUME RowInOrder, NEW t \in Nat, throttle.blockedUntil # Nothing, t >= throttle.blockedUntil
    PROVE  Throttle!Decision(Throttle!Consumed(throttle, t), t).allowed
<1>1. /\ throttle.blockedUntil \in Nat /\ throttle.blockedUntil >= Throttle!WindowEnd(throttle)
      /\ Throttle!WindowEnd(throttle) \in Nat
    BY Sizes DEF RowInOrder, Orderly, Throttle!WindowEnd
<1>2. ~Throttle!Blocked(throttle, t) /\ Throttle!Over(throttle, t)
    BY <1>1 DEF Throttle!Blocked, Throttle!Over
<1> DEFINE r == Throttle!Consumed(throttle, t)
<1>3. r = [start |-> t, attempts |-> 1, blockedUntil |-> Nothing]
    BY <1>2 DEF Throttle!Consumed
<1> HIDE DEF r
<1>4. ~Throttle!Blocked(r, t) BY <1>3 DEF Throttle!Blocked
<1> QED BY <1>4 DEF Throttle!Decision, r

\* A look foretells what an attempt would be told.
LEMMA LookForetells ==
    ASSUME RowInOrder, NEW t \in Nat
    PROVE  Throttle!Inspected(throttle, t) = Throttle!Decision(Throttle!Consumed(throttle, t), t)
<1> DEFINE r == Throttle!Consumed(throttle, t)
<1>1. Throttle!WindowEnd(throttle) \in Nat /\ throttle.attempts \in Nat /\ Limit \in Nat
    BY Sizes DEF RowInOrder, Orderly, Throttle!WindowEnd
<1>2. CASE ~Throttle!Known(throttle) \/ (~Throttle!Blocked(throttle, t) /\ Throttle!Over(throttle, t))
    <2>1. r = [start |-> t, attempts |-> 1, blockedUntil |-> Nothing] BY <1>2 DEF Throttle!Consumed
    <2>2. ~Throttle!Blocked(r, t) /\ Throttle!WindowEnd(r) = t + Window
        BY <2>1 DEF Throttle!Blocked, Throttle!WindowEnd
    <2>3. Throttle!Inspected(throttle, t) = [allowed |-> TRUE, resetAt |-> t + Window]
        BY <1>2 DEF Throttle!Inspected
    <2> HIDE DEF r
    <2> QED BY <2>2, <2>3 DEF Throttle!Decision, r
<1>3. CASE Throttle!Known(throttle) /\ Throttle!Blocked(throttle, t)
    <2>1. r = throttle BY <1>3 DEF Throttle!Consumed
    <2>2. Throttle!Inspected(throttle, t) = [allowed |-> FALSE, resetAt |-> throttle.blockedUntil]
        BY <1>3 DEF Throttle!Inspected
    <2> QED BY <1>3, <2>1, <2>2 DEF Throttle!Decision
<1>4. CASE Throttle!Known(throttle) /\ ~Throttle!Blocked(throttle, t) /\ ~Throttle!Over(throttle, t)
    <2>1. Throttle!Inspected(throttle, t) = [allowed |-> throttle.attempts < Limit,
                               resetAt |-> IF throttle.attempts < Limit THEN Throttle!WindowEnd(throttle)
                                           ELSE Throttle!BlockEnd(throttle, t)]
        BY <1>4 DEF Throttle!Inspected
    <2>2. CASE throttle.attempts >= Limit
        <3> DEFINE end == Throttle!BlockEnd(throttle, t)
        <3>1. r = [throttle EXCEPT !.blockedUntil = end] BY <1>4, <2>2 DEF Throttle!Consumed
        <3>2. end \in Nat /\ end > t BY <1>1, Sizes DEF Throttle!BlockEnd
        <3> HIDE DEF end
        <3>3. r.blockedUntil = end BY <3>1 DEF RowInOrder, Orderly
        <3>4. Throttle!Blocked(r, t) BY <3>2, <3>3, Sizes DEF Throttle!Blocked
        <3>5. ~(throttle.attempts < Limit) BY <1>1, <2>2
        <3> HIDE DEF r
        <3> QED BY <2>1, <3>3, <3>4, <3>5 DEF Throttle!Decision, r, end
    <2>3. CASE ~(throttle.attempts >= Limit)
        <3> DEFINE more == throttle.attempts + 1
        <3>1. r = [throttle EXCEPT !.attempts = more, !.blockedUntil = Nothing]
            BY <1>4, <2>3 DEF Throttle!Consumed
        <3> HIDE DEF more
        <3>2. r.blockedUntil = Nothing /\ r.start = throttle.start BY <3>1 DEF RowInOrder, Orderly
        <3>3. ~Throttle!Blocked(r, t) /\ Throttle!WindowEnd(r) = Throttle!WindowEnd(throttle)
            BY <3>2 DEF Throttle!Blocked, Throttle!WindowEnd
        <3>4. throttle.attempts < Limit BY <1>1, <2>3
        <3> HIDE DEF r
        <3> QED BY <2>1, <3>3, <3>4 DEF Throttle!Decision, r
    <2> QED BY <2>2, <2>3
<1> QED BY <1>2, <1>3, <1>4

RefusalsExpire ==
    \A c \in Client : client'[c] # client[c] /\ client'[c].at = "refused" =>
        bucket'.expires # Nothing \/ bucket' = Throttle!NoBucket

LEMMA ThrottleStep ==
    ASSUME HInv, [Throttle!Next]_(Throttle!vars)
    PROVE  HInv' /\ RefusalsExpire
<1>1. ASSUME NEW t \in {now, now - 1}, Throttle!Consume(t) PROVE HInv' /\ RefusalsExpire
    <2>1. t \in Nat /\ throttle' = Throttle!Consumed(throttle, t) /\ UNCHANGED <<now, bucket, client>>
        BY <1>1 DEF Throttle!Consume
    <2>2. RowInOrder' BY <2>1, ConsumedRow DEF HInv, RowInOrder
    <2> QED BY <2>1, <2>2 DEF HInv, BucketInOrder, ClientsInOrder, RefusalsExpire
<1>2. ASSUME NEW c \in Client, Throttle!Count(c) PROVE HInv' /\ RefusalsExpire
    <2> DEFINE count == bucket.count + 1
    <2>1. /\ bucket' = [bucket EXCEPT !.count = count] /\ UNCHANGED <<now, throttle>>
          /\ Throttle!NeedsExpiry(count, bucket.expires) =>
                client' = [client EXCEPT ![c] = [at |-> "counted", count |-> count]]
          /\ ~Throttle!NeedsExpiry(count, bucket.expires) => Throttle!Answered(c, count)
        BY <1>2 DEF Throttle!Count
    <2>2. count \in Nat /\ count # 0 BY DEF HInv, BucketInOrder
    <2> HIDE DEF count
    <2>3. bucket' = [count |-> count, expires |-> bucket.expires]
        BY <2>1 DEF HInv, BucketInOrder
    <2>4. PICK at \in {"counted", "refused", "allowed"} :
             client' = [client EXCEPT ![c] = [at |-> at, count |-> count]]
        BY <2>1 DEF Throttle!Answered
    <2>5. ~Throttle!NeedsExpiry(count, bucket.expires) => bucket.expires # Nothing
        BY DEF Throttle!NeedsExpiry
    <2>6. client'[c] = [at |-> at, count |-> count]
          /\ \A d \in Client \ {c} : client'[d] = client[d]
        BY <2>4 DEF HInv, ClientsInOrder
    <2>7. ClientsInOrder' BY <2>4 DEF HInv, ClientsInOrder
    <2>8. BucketInOrder' BY <2>1, <2>2, <2>3, <2>6 DEF HInv, BucketInOrder
    <2>9. RowInOrder' BY <2>1 DEF HInv, RowInOrder, Orderly
    <2>10. Throttle!NeedsExpiry(count, bucket.expires) => client'[c].at = "counted"
        BY <2>1, <2>6 DEF HInv, ClientsInOrder
    <2>11. RefusalsExpire BY <2>3, <2>5, <2>6, <2>10 DEF RefusalsExpire
    <2> QED BY <2>7, <2>8, <2>9, <2>11 DEF HInv
<1>3. ASSUME NEW c \in Client, Throttle!SetExpiry(c) PROVE HInv' /\ RefusalsExpire
    <2> DEFINE end == now + Window
               count == client[c].count
    <2>1. /\ bucket' = IF bucket.count = 0 THEN bucket ELSE [bucket EXCEPT !.expires = end]
          /\ UNCHANGED <<now, throttle>> /\ Throttle!Answered(c, count)
        BY <1>3 DEF Throttle!SetExpiry
    <2>2. end \in Nat /\ end # Nothing BY Sizes DEF HInv, BucketInOrder
    <2> HIDE DEF end, count
    <2>3. PICK at \in {"refused", "allowed"} :
             client' = [client EXCEPT ![c] = [at |-> at, count |-> count]]
        BY <2>1 DEF Throttle!Answered
    <2>4. client'[c] = [at |-> at, count |-> count]
          /\ \A d \in Client \ {c} : client'[d] = client[d]
        BY <2>3 DEF HInv, ClientsInOrder
    <2>5. ClientsInOrder' BY <2>3 DEF HInv, ClientsInOrder
    <2>6. RowInOrder' BY <2>1 DEF HInv, RowInOrder, Orderly
    <2>7. CASE bucket.count = 0
        BY <2>1, <2>4, <2>5, <2>6, <2>7 DEF HInv, BucketInOrder, RefusalsExpire
    <2>8. CASE bucket.count # 0
        <3>1. bucket' = [count |-> bucket.count, expires |-> end]
            BY <2>1, <2>8 DEF HInv, BucketInOrder
        <3> QED BY <2>1, <2>2, <2>4, <2>5, <2>6, <2>8, <3>1 DEF HInv, BucketInOrder, RefusalsExpire
    <2> QED BY <2>7, <2>8
<1>4. ASSUME NEW c \in Client, Throttle!Die(c) PROVE HInv' /\ RefusalsExpire
    <2>1. client' = [client EXCEPT ![c] = Throttle!Quiet] /\ UNCHANGED <<now, throttle, bucket>>
        BY <1>4 DEF Throttle!Die
    <2>2. client'[c] = Throttle!Quiet /\ \A d \in Client \ {c} : client'[d] = client[d]
        BY <2>1 DEF HInv, ClientsInOrder
    <2>3. ClientsInOrder' BY <2>1 DEF HInv, ClientsInOrder, Throttle!Quiet
    <2> QED BY <2>1, <2>2, <2>3 DEF HInv, BucketInOrder, RowInOrder, Orderly, RefusalsExpire,
        Throttle!Quiet
<1>5. CASE Throttle!Tick
    <2>1. /\ now' = now + 1 /\ UNCHANGED throttle
          /\ bucket' = IF bucket.expires = now + 1 THEN Throttle!NoBucket ELSE bucket
          /\ client' = [c \in Client |-> IF client[c].at = "counted" THEN client[c] ELSE Throttle!Quiet]
        BY <1>5 DEF Throttle!Tick
    <2>2. ClientsInOrder' BY <2>1 DEF HInv, ClientsInOrder, Throttle!Quiet
    <2>3. RowInOrder' BY <2>1 DEF HInv, RowInOrder, Orderly
    <2>4. BucketInOrder' BY <2>1 DEF HInv, BucketInOrder, Throttle!NoBucket, Throttle!Quiet
    <2>5. RefusalsExpire BY <2>1 DEF RefusalsExpire, Throttle!Quiet
    <2> QED BY <2>2, <2>3, <2>4, <2>5 DEF HInv
<1>6. CASE UNCHANGED Throttle!vars
    BY <1>6 DEF Throttle!vars, HInv, RowInOrder, BucketInOrder, ClientsInOrder, Orderly,
           RefusalsExpire
<1> QED BY <1>1, <1>2, <1>3, <1>4, <1>5, <1>6 DEF Throttle!Next

LEMMA ThrottleInit == Throttle!Init => HInv
<1> SUFFICES ASSUME Throttle!Init PROVE HInv OBVIOUS
<1>1. RowInOrder BY DEF Throttle!Init, RowInOrder, Orderly, Throttle!NoRow
<1>2. BucketInOrder BY DEF Throttle!Init, BucketInOrder, Throttle!NoBucket, Throttle!Quiet
<1>3. ClientsInOrder BY DEF Throttle!Init, ClientsInOrder, Throttle!Quiet
<1> QED BY <1>1, <1>2, <1>3 DEF HInv

\* Refusals end in every behaviour of the throttles.
LEMMA ThrottleSafe == Throttle!Spec => Throttle!RefusalsEnd
<1>1. HInv /\ [Throttle!Next]_(Throttle!vars) =>
         /\ \A t \in 0 .. MaxTime + Window + Block :
               /\ Throttle!Known(throttle) /\ throttle.blockedUntil # Nothing /\
                        t >= throttle.blockedUntil =>
                     Throttle!Decision(Throttle!Consumed(throttle, t), t).allowed
               /\ Throttle!Inspected(throttle, t) = Throttle!Decision(Throttle!Consumed(throttle, t), t)
         /\ \A c \in Client : client'[c] # client[c] /\ client'[c].at = "refused" =>
               bucket'.expires # Nothing \/ bucket' = Throttle!NoBucket
    <2> SUFFICES ASSUME HInv, [Throttle!Next]_(Throttle!vars)
                 PROVE  /\ \A t \in 0 .. MaxTime + Window + Block :
                              /\ Throttle!Known(throttle) /\ throttle.blockedUntil # Nothing /\
                                       t >= throttle.blockedUntil =>
                                    Throttle!Decision(Throttle!Consumed(throttle, t), t).allowed
                              /\ Throttle!Inspected(throttle, t) = Throttle!Decision(Throttle!Consumed(throttle, t), t)
                        /\ RefusalsExpire
        BY DEF RefusalsExpire
    <2> QED BY ThrottleStep, BlockEnds, LookForetells DEF HInv
<1>2. HInv /\ [Throttle!Next]_(Throttle!vars) => HInv' BY ThrottleStep
<1> QED BY <1>1, <1>2, ThrottleInit, PTL DEF Throttle!Spec, Throttle!RefusalsEnd

-----------------------------------------------------------------------------
(* Requests: ApiHandlers.                                                    *)

MethodsOf(table) == UNION {DOMAIN table[path] : path \in DOMAIN table}
AnyMethod == MethodsOf(Console) \cup MethodsOf(Served)
Asker == [live : BOOLEAN, role : Nat, scopes : SUBSET Scope]
Request ==
    [method : AnyMethod, path : DOMAIN Console \cup DOMAIN Served, trusted : BOOLEAN, at : Nat,
     as : Asker, answer : {"none", "forbidden", "error", "lost", "ok"}, changes : Nat,
     earlier : Nat, by : Asker, kept : {"nothing", "done", "refused"}, tries : Nat]

HandlerFor(r) == Handlers!HandlerOf(r.method, r.path)
PlaceOf(r) == <<r.method, r.path>>
StepsOf(r) == HandlerFor(r).steps

Routed(r) ==
    \/ r.path \in DOMAIN Console /\ r.method \in DOMAIN Console[r.path]
    \/ r.path \in DOMAIN Served /\ r.method \in DOMAIN Served[r.path]
Member(r, who) == r.path \in DOMAIN Console => who.role >= 1

\* What a place declares, of whoever asks from where.
Fits(place, trusted, who) ==
    /\ place \in DOMAIN RoleGates => who.live /\ who.role >= RoleGates[place] /\ trusted
    /\ place \in DOMAIN KeyGates => KeyGates[place] \subseteq who.scopes
    /\ place \in DOMAIN Documented => Documented[place] \subseteq who.scopes
    /\ place \in SignedOut => trusted

HTyped(r) == r \in Request /\ Routed(r) /\ r.at \in 1 .. Len(StepsOf(r)) + 1
Seen(r, step) == Handlers!Before(HandlerFor(r), r.at, step)
Shown(r) ==
    /\ Seen(r, "session") => r.as.live /\ Member(r, r.as)
    /\ Seen(r, "key") => HandlerFor(r).scopes \subseteq r.as.scopes
    /\ Seen(r, "role") => r.as.role >= HandlerFor(r).role
    /\ Seen(r, "origin") => r.trusted
Entitled(r) ==
    r.changes > 0 =>
        /\ PlaceOf(r) \in DOMAIN RoleGates \cup DOMAIN KeyGates \cup SignedOut
        /\ Fits(PlaceOf(r), r.trusted, r.by)
Settled(r) ==
    /\ r.changes <= Handlers!ChangesBefore(HandlerFor(r), r.at)
    /\ r.answer \in {"error", "forbidden"} => r.changes <= Handlers!MayLeave(PlaceOf(r))
OnceOnly(r) ==
    PlaceOf(r) \in DOMAIN KeyGates => r.earlier + r.changes = IF r.kept = "done" THEN 1 ELSE 0
Told(r) ==
    /\ r.answer = "ok" => r.at = Len(StepsOf(r)) + 1
    /\ r.answer = "forbidden"
       /\ PlaceOf(r) \in DOMAIN RoleGates \cup DOMAIN KeyGates \cup DOMAIN Documented =>
          ~Fits(PlaceOf(r), r.trusted, r.as)
Good(r) == HTyped(r) /\ Shown(r) /\ Entitled(r) /\ Settled(r) /\ OnceOnly(r) /\ Told(r)
CallerInv ==
    /\ whose \in Asker
    /\ ~whose.live => whose = Handlers!Nobody
    /\ whose.live => Member(request, whose)
HandlersInv == Good(request) /\ CallerInv

-----------------------------------------------------------------------------
\* The handler of a request is sound.
LEMMA HandlerSound ==
    ASSUME NEW r, Routed(r)
    PROVE  /\ Handlers!SoundAt(PlaceOf(r), HandlerFor(r))
           /\ PlaceOf(r) \in DOMAIN RoleGates => r.path \in DOMAIN Console
           /\ PlaceOf(r) \in DOMAIN RoleGates => RoleGates[PlaceOf(r)] \in Nat
BY HandlerTables DEF Handlers!TablesAreSound, HandlerFor, Handlers!HandlerOf, PlaceOf, Routed

\* The i-th of its steps is before any later one.
LEMMA BeforeNext ==
    ASSUME NEW handler, NEW i \in Nat \ {0}, NEW step
    PROVE  Handlers!Before(handler, i + 1, step)
          <=> Handlers!Before(handler, i, step) \/ handler.steps[i] = step
BY DEF Handlers!Before

\* Each of them that changes something counts.
LEMMA ChangesCount ==
    ASSUME NEW handler, NEW i \in Nat \ {0}
    PROVE  /\ Handlers!ChangesBefore(handler, i) \in Nat
           /\ Handlers!ChangesBefore(handler, i + 1) =
                Handlers!ChangesBefore(handler, i) +
                    (IF handler.steps[i] \in Handlers!Changing THEN 1 ELSE 0)
<1> DEFINE Upto(n) == {j \in 1 .. n - 1 : handler.steps[j] \in Handlers!Changing}
<1>0. IsFiniteSet(1 .. i - 1)
    BY FS_Interval
<1>1. IsFiniteSet(Upto(i)) /\ i \notin Upto(i)
    BY <1>0, FS_Subset
<1>2. Upto(i + 1) = IF handler.steps[i] \in Handlers!Changing THEN Upto(i) \cup {i} ELSE Upto(i)
    OBVIOUS
<1>3. Cardinality(Upto(i)) \in Nat
    BY <1>1, FS_CardinalityType
<1>4. \A n : Handlers!ChangesBefore(handler, n) = Cardinality(Upto(n))
    BY DEF Handlers!ChangesBefore, Handlers!Cardinality, Cardinality
<1> HIDE DEF Upto
<1>5. Cardinality(Upto(i) \cup {i}) = Cardinality(Upto(i)) + 1
    BY <1>1, FS_AddElement
<1> QED BY <1>2, <1>3, <1>4, <1>5

LEMMA LeavesTyped == ASSUME NEW place PROVE Handlers!MayLeave(place) \in Nat
BY DEF Handlers!MayLeave

\* Whoever has shown all that is asked before a step holds what is declared.
LEMMA ShownFits ==
    ASSUME NEW r, HTyped(r), Shown(r), Handlers!AssuredAt(PlaceOf(r), HandlerFor(r), r.at)
    PROVE  Fits(PlaceOf(r), r.trusted, r.as)
<1> DEFINE place == PlaceOf(r)
           handler == HandlerFor(r)
<1>1. r.as \in Asker /\ handler.role \in Nat
    BY HandlerSound DEF HTyped, Request, Handlers!SoundAt
<1>2. ASSUME place \in DOMAIN RoleGates
      PROVE  r.as.live /\ r.as.role >= RoleGates[place] /\ r.trusted
    <2>1. RoleGates[place] \in Nat /\ r.path \in DOMAIN Console
        BY <1>2, HandlerSound DEF HTyped
    <2>2. r.as.live /\ r.as.role >= 1 /\ r.trusted
        BY <1>2, <2>1 DEF Shown, Seen, Handlers!AssuredAt, Member
    <2>3. RoleGates[place] > 1 => r.as.role >= handler.role /\ handler.role >= RoleGates[place]
        BY <1>2 DEF Shown, Seen, Handlers!AssuredAt
    <2> QED BY <1>1, <2>1, <2>2, <2>3 DEF Asker
<1>3. Handlers!Declared(place) \subseteq r.as.scopes
    BY DEF Shown, Seen, Handlers!AssuredAt
<1>4. place \in SignedOut => r.trusted
    BY DEF Shown, Seen, Handlers!AssuredAt
<1> QED BY <1>2, <1>3, <1>4 DEF Fits, Handlers!Declared, Handlers!At

-----------------------------------------------------------------------------
\* A request is asked.
LEMMA AskedIsGood ==
    ASSUME NEW method, NEW path, NEW trusted \in BOOLEAN,
           \/ path \in DOMAIN Console /\ method \in DOMAIN Console[path]
           \/ path \in DOMAIN Served /\ method \in DOMAIN Served[path]
    PROVE  Good(Handlers!Asked(method, path, trusted))
<1> DEFINE r == Handlers!Asked(method, path, trusted)
<1>1. /\ r.method = method /\ r.path = path /\ r.trusted = trusted /\ r.at = 1 /\ r.changes = 0
      /\ r.earlier = 0 /\ r.answer = "none" /\ r.kept = "nothing"
    BY DEF Handlers!Asked
<1> HIDE DEF r
<1>a. Routed(r) /\ method \in AnyMethod /\ path \in DOMAIN Console \cup DOMAIN Served
    <2>1. ASSUME NEW table, path \in DOMAIN table, method \in DOMAIN table[path]
          PROVE  method \in MethodsOf(table)
        BY <2>1 DEF MethodsOf
    <2>2. method \in AnyMethod
        BY <2>1 DEF AnyMethod
    <2> QED BY <2>2, <1>1 DEF Routed
<1>b. Handlers!Nobody \in Asker
    BY DEF Handlers!Nobody, Asker
<1>c. r \in Request
    BY <1>a, <1>b DEF Handlers!Asked, Request, r
<1>2. StepsOf(r) \in Seq(STRING)
    BY <1>a, HandlerSound DEF Handlers!SoundAt, StepsOf
<1>3. HTyped(r)
    BY <1>1, <1>a, <1>c, <1>2 DEF HTyped
<1>4. \A step : ~Seen(r, step)
    BY <1>1 DEF Seen, Handlers!Before
<1>5. Settled(r)
    BY <1>1, ChangesCount DEF Settled
<1> QED BY <1>1, <1>3, <1>4, <1>5 DEF Good, Shown, Entitled, OnceOnly, Told, r

\* It goes on to its next step: what that shows, and what is changed by it.
LEMMA OnIsGood ==
    ASSUME NEW r, Good(r), r.answer = "none", r.at <= Len(StepsOf(r)),
           NEW n \in Request, PlaceOf(n) = PlaceOf(r), n.trusted = r.trusted,
           n.method = r.method, n.path = r.path,
           n.at = r.at + 1, n.answer = "none", Shown(n), Entitled(n), OnceOnly(n),
           \/ n.changes = r.changes
           \/ n.changes = r.changes + 1 /\ StepsOf(r)[r.at] \in Handlers!Changing
    PROVE  Good(n)
<1>1. Handlers!SoundAt(PlaceOf(r), HandlerFor(r)) /\ HandlerFor(n) = HandlerFor(r) /\
            StepsOf(n) = StepsOf(r)
    BY HandlerSound DEF Good, HTyped, HandlerFor, StepsOf
<1>2. Len(StepsOf(r)) \in Nat /\ r.at \in Nat \ {0} /\ r.at <= Len(StepsOf(r))
    BY <1>1 DEF Handlers!SoundAt, StepsOf, Good, HTyped
<1>3. HTyped(n)
    BY <1>1, <1>2 DEF HTyped, Good, Routed
<1>4. Settled(n)
    <2>1. r.changes \in Nat /\ r.changes <= Handlers!ChangesBefore(HandlerFor(r), r.at)
        BY DEF Good, HTyped, Request, Settled
    <2>2. /\ Handlers!ChangesBefore(HandlerFor(r), r.at) \in Nat
          /\ Handlers!ChangesBefore(HandlerFor(r), r.at + 1) =
                Handlers!ChangesBefore(HandlerFor(r), r.at) +
                    (IF StepsOf(r)[r.at] \in Handlers!Changing THEN 1 ELSE 0)
        BY <1>2, ChangesCount DEF StepsOf
    <2>3. n.changes <= Handlers!ChangesBefore(HandlerFor(r), r.at + 1)
        BY <2>1, <2>2
    <2> QED BY <1>1, <2>3 DEF Settled
<1>5. Told(n)
    BY DEF Told
<1> QED BY <1>3, <1>4, <1>5 DEF Good

\* A step that neither shows nor changes anything.
LEMMA StepOver ==
    ASSUME NEW r, Good(r), r.answer = "none", r.at <= Len(StepsOf(r)),
           StepsOf(r)[r.at] \notin {"session", "key", "role", "origin"}
    PROVE  Good([r EXCEPT !.at = r.at + 1])
<1> DEFINE n == [r EXCEPT !.at = r.at + 1]
<1>1. r \in Request /\ r.at \in Nat \ {0}
    BY DEF Good, HTyped
<1>2. /\ n \in Request /\ n.trusted = r.trusted /\ n.method = r.method /\ n.path = r.path
      /\ n.at = r.at + 1 /\ n.answer = "none" /\ n.changes = r.changes /\ n.as = r.as
      /\ n.by = r.by /\ n.earlier = r.earlier /\ n.kept = r.kept
    BY <1>1 DEF Request
<1> HIDE DEF n
<1>3. PlaceOf(n) = PlaceOf(r) /\ HandlerFor(n) = HandlerFor(r)
    BY <1>2 DEF PlaceOf, HandlerFor
<1>4. \A step \in {"session", "key", "role", "origin"} : Seen(n, step) <=> Seen(r, step)
    BY <1>1, <1>2, <1>3, BeforeNext DEF Seen, StepsOf
<1>5. Shown(n)
    BY <1>2, <1>3, <1>4 DEF Shown, Good, Member
<1>6. Entitled(n) /\ OnceOnly(n)
    BY <1>2, <1>3 DEF Entitled, OnceOnly, Good
<1>7. n.changes \in Nat /\ r.changes \in Nat
    BY <1>1, <1>2 DEF Request
<1>8. Good(n)
    BY <1>1, <1>2, <1>3, <1>5, <1>6, <1>7, OnIsGood
<1> QED BY <1>8 DEF n

\* Before the session or the key is read, nothing is known of who calls.
LEMMA NobodyYet ==
    ASSUME NEW r, Good(r), r.at <= Len(StepsOf(r)), StepsOf(r)[r.at] \in {"session", "key"}
    PROVE  ~Seen(r, "session") /\ ~Seen(r, "key") /\ ~Seen(r, "role")
<1>1. r.at \in Nat \ {0} /\ Handlers!AsksOnce(HandlerFor(r)) /\ Len(StepsOf(r)) \in Nat
    BY HandlerSound DEF Good, HTyped, Handlers!SoundAt, StepsOf
<1>2. ~Seen(r, "session") /\ ~Seen(r, "key")
    BY <1>1 DEF Handlers!AsksOnce, StepsOf, Seen
<1>3. SUFFICES ASSUME NEW j \in 1 .. r.at - 1, HandlerFor(r).steps[j] = "role" PROVE FALSE
    BY <1>2 DEF Seen, Handlers!Before
<1>4. Handlers!Before(HandlerFor(r), j, "session")
    BY <1>1, <1>3 DEF Handlers!AsksOnce, StepsOf
<1>5. Handlers!Before(HandlerFor(r), r.at, "session")
    BY <1>1, <1>4 DEF Handlers!Before
<1> QED BY <1>2, <1>5 DEF Seen

\* The session, or the key, is read.
LEMMA WhoIsGood ==
    ASSUME NEW r, Good(r), r.answer = "none", r.at <= Len(StepsOf(r)),
           StepsOf(r)[r.at] \in {"session", "key"}, NEW who \in Asker,
           who.live, Member(r, who),
           StepsOf(r)[r.at] = "key" => HandlerFor(r).scopes \subseteq who.scopes
    PROVE  Good([r EXCEPT !.at = r.at + 1, !.as = who])
<1> DEFINE next == r.at + 1
           n == [r EXCEPT !.at = next, !.as = who]
<1>1. r \in Request /\ r.at \in Nat \ {0}
    BY DEF Good, HTyped
<1>n. next \in Nat
    BY <1>1
<1> HIDE DEF next
<1>2. /\ n \in Request /\ n.trusted = r.trusted /\ n.method = r.method /\ n.path = r.path
      /\ n.at = next /\ n.answer = "none" /\ n.changes = r.changes /\ n.as = who
      /\ n.by = r.by /\ n.earlier = r.earlier /\ n.kept = r.kept
    BY <1>1, <1>n DEF Request
<1> HIDE DEF n
<1> USE DEF next
<1>3. PlaceOf(n) = PlaceOf(r) /\ HandlerFor(n) = HandlerFor(r)
    BY <1>2 DEF PlaceOf, HandlerFor
<1>5. ~Seen(r, "session") /\ ~Seen(r, "key") /\ ~Seen(r, "role")
    BY NobodyYet
<1>7. /\ ~Seen(n, "role")
      /\ Seen(n, "origin") => Seen(r, "origin")
      /\ Seen(n, "key") => StepsOf(r)[r.at] = "key"
    BY <1>1, <1>2, <1>3, <1>5, BeforeNext DEF Seen, StepsOf
<1>8. Shown(n)
    <2>1. Seen(n, "session") => n.as.live /\ Member(n, n.as)
        BY <1>2 DEF Member
    <2>2. Seen(n, "key") => HandlerFor(n).scopes \subseteq n.as.scopes
        BY <1>2, <1>3, <1>7
    <2>3. Seen(n, "origin") => n.trusted
        BY <1>2, <1>7 DEF Shown, Good
    <2> QED BY <1>7, <2>1, <2>2, <2>3 DEF Shown
<1>9. Entitled(n) /\ OnceOnly(n)
    BY <1>2, <1>3 DEF Entitled, OnceOnly, Good
<1>10. n.changes \in Nat /\ r.changes \in Nat
    BY <1>1, <1>2 DEF Request
<1>11. Good(n)
    BY <1>1, <1>2, <1>3, <1>8, <1>9, <1>10, OnIsGood
<1> QED BY <1>11 DEF n

\* The role, or the origin, is what is asked for.
LEMMA HeldIsGood ==
    ASSUME NEW r, Good(r), r.answer = "none", r.at <= Len(StepsOf(r)),
           \/ StepsOf(r)[r.at] = "origin" /\ r.trusted
           \/ StepsOf(r)[r.at] = "role" /\ r.as.role >= HandlerFor(r).role
    PROVE  Good([r EXCEPT !.at = r.at + 1])
<1> DEFINE n == [r EXCEPT !.at = r.at + 1]
<1>1. r \in Request /\ r.at \in Nat \ {0}
    BY DEF Good, HTyped
<1>2. /\ n \in Request /\ n.trusted = r.trusted /\ n.method = r.method /\ n.path = r.path
      /\ n.at = r.at + 1 /\ n.answer = "none" /\ n.changes = r.changes /\ n.as = r.as
      /\ n.by = r.by /\ n.earlier = r.earlier /\ n.kept = r.kept
    BY <1>1 DEF Request
<1> HIDE DEF n
<1>3. PlaceOf(n) = PlaceOf(r) /\ HandlerFor(n) = HandlerFor(r)
    BY <1>2 DEF PlaceOf, HandlerFor
<1>4. \A step : Seen(n, step) <=> Seen(r, step) \/ StepsOf(r)[r.at] = step
    BY <1>1, <1>2, <1>3, BeforeNext DEF Seen, StepsOf
<1>5. Shown(n)
    BY <1>2, <1>3, <1>4 DEF Shown, Good, Member
<1>6. Entitled(n) /\ OnceOnly(n)
    BY <1>2, <1>3 DEF Entitled, OnceOnly, Good
<1>7. n.changes \in Nat /\ r.changes \in Nat
    BY <1>1, <1>2 DEF Request
<1>8. Good(n)
    BY <1>1, <1>2, <1>3, <1>5, <1>6, <1>7, OnIsGood
<1> QED BY <1>8 DEF n

\* A change is made, for whoever asks: never but where it may be, and of an
\* idempotency key once.
LEMMA ChangeIsGood ==
    ASSUME NEW r, Good(r), r.answer = "none", r.at <= Len(StepsOf(r)),
           NEW kept \in {"nothing", "done", "refused"},
           \/ StepsOf(r)[r.at] \in {"commit", "also"} /\ kept = r.kept
           \/ StepsOf(r)[r.at] = "once" /\ r.kept = "nothing" /\ kept = "done"
    PROVE  Good([r EXCEPT !.at = r.at + 1, !.changes = r.changes + 1, !.by = r.as, !.kept = kept])
<1> DEFINE next == r.at + 1
           more == r.changes + 1
           n == [r EXCEPT !.at = next, !.changes = more, !.by = r.as, !.kept = kept]
<1>1. r \in Request /\ r.at \in Nat \ {0} /\ r.changes \in Nat /\ r.earlier \in Nat /\ r.as \in Asker
    BY DEF Good, HTyped, Request
<1>n. next \in Nat /\ more \in Nat
    BY <1>1
<1> HIDE DEF next, more
<1>2. /\ n \in Request /\ n.trusted = r.trusted /\ n.method = r.method /\ n.path = r.path
      /\ n.at = next /\ n.answer = "none" /\ n.changes = more /\ n.as = r.as
      /\ n.by = r.as /\ n.earlier = r.earlier /\ n.kept = kept
    BY <1>1, <1>n DEF Request
<1> HIDE DEF n
<1> USE DEF next, more
<1>3. PlaceOf(n) = PlaceOf(r) /\ HandlerFor(n) = HandlerFor(r)
    BY <1>2 DEF PlaceOf, HandlerFor
<1>4. \A step \in {"session", "key", "role", "origin"} : Seen(n, step) <=> Seen(r, step)
    BY <1>1, <1>2, <1>3, BeforeNext DEF Seen, StepsOf
<1>5. Shown(n)
    BY <1>2, <1>3, <1>4 DEF Shown, Good, Member
<1>6. Handlers!SoundAt(PlaceOf(r), HandlerFor(r)) /\ r.at \in 1 .. Len(StepsOf(r))
    <2>1. Handlers!SoundAt(PlaceOf(r), HandlerFor(r))
        BY HandlerSound DEF Good, HTyped
    <2>2. Len(StepsOf(r)) \in Nat
        BY <2>1 DEF Handlers!SoundAt, StepsOf
    <2> QED BY <2>1, <2>2, <1>1
<1>7. Entitled(n)
    <2>1. /\ PlaceOf(r) \in DOMAIN RoleGates \cup DOMAIN KeyGates \cup SignedOut
          /\ Handlers!AssuredAt(PlaceOf(r), HandlerFor(r), r.at)
        BY <1>6 DEF Handlers!SoundAt, Handlers!GateHolds, StepsOf, Handlers!Changing
    <2>2. Fits(PlaceOf(r), r.trusted, r.as)
        BY <2>1, ShownFits DEF Good
    <2> QED BY <2>1, <2>2, <1>2, <1>3 DEF Entitled
<1>8. OnceOnly(n)
    <2>1. ASSUME PlaceOf(r) \in DOMAIN KeyGates
          PROVE  r.kept = "nothing" /\ kept = "done" /\ r.earlier + r.changes = 0
        BY <2>1, <1>6 DEF Handlers!SoundAt, Handlers!KeepsAnswers, StepsOf, Good, OnceOnly
    <2> QED BY <2>1, <1>1, <1>2, <1>3 DEF OnceOnly
<1>9. Good(n)
    BY <1>1, <1>2, <1>3, <1>5, <1>7, <1>8, OnIsGood DEF Handlers!Changing
<1> QED BY <1>9 DEF n

\* It ends: with an error only while no more is changed than an error may leave,
\* and without saying that the caller lacks what the caller has.
LEMMA EndIsGood ==
    ASSUME NEW r, Good(r), r.answer = "none", NEW answer \in {"forbidden", "error", "lost", "ok"},
           answer \in {"forbidden", "error"} =>
               r.at <= Len(StepsOf(r)) /\ StepsOf(r)[r.at] # "tell",
           answer = "ok" => r.at = Len(StepsOf(r)) + 1,
           answer = "forbidden"
           /\ PlaceOf(r) \in DOMAIN RoleGates \cup DOMAIN KeyGates \cup DOMAIN Documented =>
               ~Fits(PlaceOf(r), r.trusted, r.as)
    PROVE  Good([r EXCEPT !.answer = answer])
<1> DEFINE n == [r EXCEPT !.answer = answer]
<1>1. r \in Request /\ r.at \in Nat \ {0}
    BY DEF Good, HTyped
<1>2. /\ n \in Request /\ n.trusted = r.trusted /\ n.method = r.method /\ n.path = r.path
      /\ n.at = r.at /\ n.answer = answer /\ n.changes = r.changes /\ n.as = r.as
      /\ n.by = r.by /\ n.earlier = r.earlier /\ n.kept = r.kept
    BY <1>1 DEF Request
<1> HIDE DEF n
<1>3. PlaceOf(n) = PlaceOf(r) /\ HandlerFor(n) = HandlerFor(r) /\ StepsOf(n) = StepsOf(r)
    BY <1>2 DEF PlaceOf, HandlerFor, StepsOf
<1>4. HTyped(n) /\ Shown(n) /\ Entitled(n) /\ OnceOnly(n)
    BY <1>2, <1>3 DEF HTyped, Routed, Shown, Entitled, OnceOnly, Good, Seen, Member
<1>5. Told(n)
    BY <1>2, <1>3 DEF Told
<1>6. Settled(n)
    <2>1. Len(StepsOf(r)) \in Nat /\ Handlers!FailsInTime(PlaceOf(r), HandlerFor(r))
        BY HandlerSound DEF Handlers!SoundAt, StepsOf, Good, HTyped
    <2>2. r.changes <= Handlers!ChangesBefore(HandlerFor(r), r.at) /\ r.changes \in Nat
        BY DEF Settled, Good, HTyped, Request
    <2>3. ASSUME answer \in {"forbidden", "error"}
          PROVE  r.changes <= Handlers!MayLeave(PlaceOf(r))
        <3>1. Handlers!ChangesBefore(HandlerFor(r), r.at) <= Handlers!MayLeave(PlaceOf(r))
            BY <1>1, <2>1, <2>3 DEF Handlers!FailsInTime, StepsOf
        <3> QED BY <1>1, <2>2, <3>1, ChangesCount, LeavesTyped
    <2> QED BY <2>2, <2>3, <1>2, <1>3 DEF Settled
<1>7. Good(n)
    BY <1>4, <1>5, <1>6 DEF Good
<1> QED BY <1>7 DEF n

\* Whoever is turned away at a step for lack of something lacks what is declared.
LEMMA TurnedAway ==
    ASSUME NEW r, Good(r), r.answer = "none", r.at <= Len(StepsOf(r)),
           PlaceOf(r) \in DOMAIN RoleGates \cup DOMAIN KeyGates \cup DOMAIN Documented,
           NEW who \in Asker,
           \/ StepsOf(r)[r.at] = "session" /\ ~who.live
           \/ StepsOf(r)[r.at] = "key" /\
                    (who = Handlers!Nobody \/ ~(HandlerFor(r).scopes \subseteq who.scopes))
           \/ StepsOf(r)[r.at] = "origin" /\ ~r.trusted
           \/ StepsOf(r)[r.at] = "role" /\ ~(who.role >= HandlerFor(r).role)
    PROVE  ~Fits(PlaceOf(r), r.trusted, who)
<1> DEFINE place == PlaceOf(r)
           handler == HandlerFor(r)
<1>1. Handlers!SoundAt(place, handler) /\ (place \in DOMAIN RoleGates => RoleGates[place] \in Nat)
    BY HandlerSound DEF Good, HTyped
<1>2. /\ Len(handler.steps) \in Nat /\ r.at \in 1 .. Len(handler.steps)
      /\ handler.role \in Nat /\ who.role \in Nat
    BY <1>1 DEF Handlers!SoundAt, Good, HTyped, Request, StepsOf, Asker
<1>3. Handlers!Before(handler, Len(handler.steps) + 1, handler.steps[r.at])
    BY <1>2 DEF Handlers!Before
<1>4. CASE handler.steps[r.at] = "session" /\ ~who.live
    BY <1>1, <1>3, <1>4 DEF Handlers!SoundAt, Handlers!AsksNoMore, Fits
<1>5. CASE handler.steps[r.at] = "key" /\
            (who = Handlers!Nobody \/ ~(handler.scopes \subseteq who.scopes))
    <2>1. Handlers!Declared(place) # {} /\ handler.scopes \subseteq Handlers!Declared(place)
        BY <1>1, <1>3, <1>5 DEF Handlers!SoundAt, Handlers!AsksNoMore
    <2>2. ~(Handlers!Declared(place) \subseteq who.scopes)
        BY <2>1, <1>5 DEF Handlers!Nobody
    <2> QED BY <2>2 DEF Fits, Handlers!Declared, Handlers!At
<1>6. CASE handler.steps[r.at] = "origin" /\ ~r.trusted
    BY <1>1, <1>3, <1>6 DEF Handlers!SoundAt, Handlers!AsksNoMore, Fits
<1>7. CASE handler.steps[r.at] = "role" /\ ~(who.role >= handler.role)
    BY <1>1, <1>2, <1>3, <1>7 DEF Handlers!SoundAt, Handlers!AsksNoMore, Fits
<1> QED BY <1>4, <1>5, <1>6, <1>7 DEF StepsOf

\* It is known who calls, and the request goes no further.
LEMMA WhoIsTurnedAway ==
    ASSUME NEW r, Good(r), r.answer = "none", r.at <= Len(StepsOf(r)),
           StepsOf(r)[r.at] \in {"session", "key"}, NEW who \in Asker, NEW answer \in {"forbidden", "error"},
           answer = "forbidden" =>
               \/ StepsOf(r)[r.at] = "session" /\ ~who.live
               \/ StepsOf(r)[r.at] = "key" /\
                        (who = Handlers!Nobody \/ ~(HandlerFor(r).scopes \subseteq who.scopes))
    PROVE  Good([[r EXCEPT !.answer = answer] EXCEPT !.as = who])
<1> DEFINE n == [r EXCEPT !.as = who]
<1>1. r \in Request /\ r.at \in Nat \ {0}
    BY DEF Good, HTyped
<1>2. /\ n \in Request /\ n.trusted = r.trusted /\ n.method = r.method /\ n.path = r.path
      /\ n.at = r.at /\ n.answer = "none" /\ n.changes = r.changes /\ n.as = who
      /\ n.by = r.by /\ n.earlier = r.earlier /\ n.kept = r.kept
      /\ [[r EXCEPT !.answer = answer] EXCEPT !.as = who] = [n EXCEPT !.answer = answer]
    BY <1>1 DEF Request
<1> HIDE DEF n
<1>3. PlaceOf(n) = PlaceOf(r) /\ HandlerFor(n) = HandlerFor(r) /\ StepsOf(n) = StepsOf(r)
    BY <1>2 DEF PlaceOf, HandlerFor, StepsOf
<1>4. ~Seen(n, "session") /\ ~Seen(n, "key") /\ ~Seen(n, "role")
    BY <1>2, <1>3, NobodyYet DEF Seen
<1>5. Shown(n)
    BY <1>2, <1>3, <1>4 DEF Shown, Good, Seen
<1>6. HTyped(n) /\ Entitled(n) /\ Settled(n) /\ OnceOnly(n) /\ Told(n)
    BY <1>2, <1>3 DEF HTyped, Routed, Entitled, Settled, OnceOnly, Told, Good
<1>7. Good(n)
    BY <1>5, <1>6 DEF Good
<1>8. answer = "forbidden"
      /\ PlaceOf(r) \in DOMAIN RoleGates \cup DOMAIN KeyGates \cup DOMAIN Documented =>
          ~Fits(PlaceOf(r), r.trusted, who)
    BY TurnedAway
<1>9. Good([n EXCEPT !.answer = answer])
    BY <1>2, <1>3, <1>7, <1>8, EndIsGood
<1> QED BY <1>2, <1>9

-----------------------------------------------------------------------------
(* The steps.                                                                *)

LEMMA HandlersInitial == Handlers!Init => HandlersInv
<1>1. Handlers!Nobody \in Asker /\ ~Handlers!Nobody.live
    BY DEF Handlers!Nobody, Asker
<1>2. ASSUME NEW path \in DOMAIN Console, NEW method \in DOMAIN Console[path], NEW trusted \in BOOLEAN,
             request = Handlers!Asked(method, path, trusted), whose \in Handlers!Person \cup {Handlers!Nobody}
      PROVE  HandlersInv
    <2>1. Good(request)
        BY <1>2, AskedIsGood
    <2>2. ASSUME NEW r \in 1 .. 3, whose = [live |-> TRUE, role |-> r, scopes |-> {}]
          PROVE  whose \in Asker /\ whose.live /\ whose.role >= 1
        BY <2>2 DEF Asker
    <2>3. ASSUME whose \in Handlers!Person PROVE whose \in Asker /\ whose.live /\ whose.role >= 1
        <3>1. PICK r \in 1 .. 3 : whose = [live |-> TRUE, role |-> r, scopes |-> {}]
            BY <2>3 DEF Handlers!Person
        <3> QED BY <3>1, <2>2
    <2> QED BY <2>1, <2>3, <1>1, <1>2 DEF HandlersInv, CallerInv, Member
<1>3. ASSUME NEW path \in DOMAIN Served, NEW method \in DOMAIN Served[path],
             request = Handlers!Asked(method, path, FALSE),
             whose \in Handlers!KeyHolder(<<method, path>>, Served[path][method]) \cup {Handlers!Nobody}
      PROVE  HandlersInv
    <2>1. Good(request)
        BY <1>3, AskedIsGood
    <2>2. ASSUME NEW lacks, whose = [live |-> TRUE, role |-> 0, scopes |-> Scope \ lacks]
          PROVE  whose \in Asker /\ whose.live
        BY <2>2 DEF Asker
    <2>4. ASSUME whose \in Handlers!KeyHolder(<<method, path>>, Served[path][method])
          PROVE  whose \in Asker /\ whose.live
        <3> DEFINE Lacks == {{}} \cup {{s} : s \in Handlers!Matters(<<method, path>>, Served[path][method])}
        <3>1. PICK lacks \in Lacks : whose = [live |-> TRUE, role |-> 0, scopes |-> Scope \ lacks]
            BY <2>4 DEF Handlers!KeyHolder
        <3> QED BY <3>1, <2>2
    <2>3. request.path \notin DOMAIN Console
        BY <1>3, HandlerTables DEF Handlers!Asked, Handlers!TablesAreSound
    <2> QED BY <2>1, <2>3, <2>4, <1>1, <1>3 DEF HandlersInv, CallerInv, Member
<1> QED BY <1>2, <1>3 DEF Handlers!Init

\* The step a request is at.
LEMMA AtStep ==
    ASSUME HandlersInv, NEW step, Handlers!Step = step, step # "over"
    PROVE  /\ Good(request) /\ request.answer = "none" /\ request.at <= Len(StepsOf(request))
           /\ StepsOf(request)[request.at] = step
BY DEF HandlersInv, Handlers!Step, Handlers!Steps, StepsOf, Handlers!Requires, HandlerFor

\* A step that is not "tell" may end in an error.
LEMMA ErrorIsGood ==
    ASSUME HandlersInv, Handlers!Step \notin {"over", "tell"}
    PROVE  Good(Handlers!Ended("error"))
BY AtStep, EndIsGood DEF Handlers!Ended

LEMMA AskAgainIsGood ==
    ASSUME NEW r, Good(r), r.answer \in {"error", "lost"}, NEW tries \in Nat,
           NEW earlier, earlier = r.earlier + r.changes
    PROVE  Good([r EXCEPT !.at = 1, !.as = Handlers!Nobody, !.answer = "none", !.tries = tries,
                          !.earlier = earlier, !.changes = 0])
<1> DEFINE n == [r EXCEPT !.at = 1, !.as = Handlers!Nobody, !.answer = "none", !.tries = tries,
                          !.earlier = earlier, !.changes = 0]
<1>1. r \in Request /\ earlier \in Nat /\ Handlers!Nobody \in Asker /\ Len(StepsOf(r)) \in Nat
    BY HandlerSound DEF Good, HTyped, Request, Handlers!Nobody, Asker, Handlers!SoundAt, StepsOf
<1>2. /\ n \in Request /\ n.trusted = r.trusted /\ n.method = r.method /\ n.path = r.path
      /\ n.at = 1 /\ n.answer = "none" /\ n.changes = 0
      /\ n.earlier = earlier /\ n.kept = r.kept
    BY <1>1 DEF Request
<1> HIDE DEF n
<1>3. PlaceOf(n) = PlaceOf(r) /\ HandlerFor(n) = HandlerFor(r) /\ StepsOf(n) = StepsOf(r)
    BY <1>2 DEF PlaceOf, HandlerFor, StepsOf
<1>4. \A step : ~Seen(n, step)
    BY <1>2 DEF Seen, Handlers!Before
<1>5. HTyped(n)
    BY <1>1, <1>2, <1>3 DEF HTyped, Routed, Good
<1>6. OnceOnly(n)
    BY <1>1, <1>2, <1>3 DEF OnceOnly, Good
<1>8. Settled(n)
    BY <1>2, ChangesCount DEF Settled
<1>7. Good(n)
    BY <1>2, <1>4, <1>5, <1>6, <1>8 DEF Good, Shown, Entitled, Told
<1> QED BY <1>7 DEF n

LEMMA SessionIsGood == ASSUME HandlersInv, Handlers!Session PROVE Good(request')
<1>1. /\ Good(request) /\ request.answer = "none" /\ request.at <= Len(StepsOf(request))
      /\ StepsOf(request)[request.at] = "session"
    BY AtStep DEF Handlers!Session
<1>2. whose \in Asker /\ (whose.live => Member(request, whose))
    BY DEF HandlersInv, CallerInv
<1>3. CASE whose.live
    <2>1. request \in Request
        BY <1>1 DEF Good, HTyped
    <2> DEFINE next == request.at + 1
    <2>2. next \in Nat
        BY <2>1 DEF Request
    <2>3. request' = [[request EXCEPT !.at = next] EXCEPT !.as = whose]
        BY <1>3 DEF Handlers!Session, Handlers!On
    <2>4. Good([request EXCEPT !.at = next, !.as = whose])
        BY <1>1, <1>2, <1>3, WhoIsGood
    <2> HIDE DEF next
    <2>5. [[request EXCEPT !.at = next] EXCEPT !.as = whose] = [request EXCEPT !.at = next, !.as = whose]
        BY <1>2, <2>1, <2>2 DEF Request
    <2> QED BY <2>3, <2>4, <2>5
<1>4. CASE ~whose.live
    <2>1. request' = [[request EXCEPT !.answer = "forbidden"] EXCEPT !.as = whose]
        BY <1>4 DEF Handlers!Session, Handlers!Ended
    <2> QED BY <1>1, <1>2, <1>4, <2>1, WhoIsTurnedAway
<1> QED BY <1>3, <1>4

LEMMA KeyIsGood == ASSUME HandlersInv, Handlers!Key PROVE Good(request')
<1>1. /\ Good(request) /\ request.answer = "none" /\ request.at <= Len(StepsOf(request))
      /\ StepsOf(request)[request.at] = "key" /\ Handlers!Requires = HandlerFor(request)
    BY AtStep DEF Handlers!Key, Handlers!Requires, HandlerFor
<1>2. whose \in Asker /\ (whose.live => Member(request, whose)) /\ (~whose.live
            => whose = Handlers!Nobody)
    BY DEF HandlersInv, CallerInv
<1> DEFINE holds == whose.live /\ Handlers!Requires.scopes \subseteq whose.scopes
<1>3. CASE holds /\ request' = [(IF holds THEN Handlers!On ELSE Handlers!Ended("forbidden")) EXCEPT !.as = whose]
    <2>1. request \in Request
        BY <1>1 DEF Good, HTyped
    <2> DEFINE next == request.at + 1
    <2>2. next \in Nat
        BY <2>1 DEF Request
    <2>3. request' = [[request EXCEPT !.at = next] EXCEPT !.as = whose]
        BY <1>3 DEF Handlers!On
    <2>4. Good([request EXCEPT !.at = next, !.as = whose])
        BY <1>1, <1>2, <1>3, WhoIsGood
    <2> HIDE DEF next
    <2>5. [[request EXCEPT !.at = next] EXCEPT !.as = whose] = [request EXCEPT !.at = next, !.as = whose]
        BY <1>2, <2>1, <2>2 DEF Request
    <2> QED BY <2>3, <2>4, <2>5
<1>4. CASE ~holds /\ request' = [(IF holds THEN Handlers!On ELSE Handlers!Ended("forbidden")) EXCEPT !.as = whose]
    <2>1. request' = [[request EXCEPT !.answer = "forbidden"] EXCEPT !.as = whose]
        BY <1>4 DEF Handlers!Ended
    <2>2. whose = Handlers!Nobody \/ ~(HandlerFor(request).scopes \subseteq whose.scopes)
        BY <1>1, <1>2, <1>4
    <2> QED BY <1>1, <1>2, <2>1, <2>2, WhoIsTurnedAway
<1>5. CASE request' = Handlers!Ended("error")
    <2>1. Good(Handlers!Ended("error"))
        BY <1>1, EndIsGood DEF Handlers!Ended
    <2> QED BY <1>5, <2>1
<1> QED BY <1>3, <1>4, <1>5 DEF Handlers!Key

LEMMA OnIsGoodHere ==
    ASSUME HandlersInv, NEW step, Handlers!Step = step, step \notin {"over", "session", "key", "origin", "role"}
    PROVE  Good(Handlers!On)
<1>1. /\ Good(request) /\ request.answer = "none" /\ request.at <= Len(StepsOf(request))
      /\ StepsOf(request)[request.at] = step
    BY AtStep
<1> QED BY <1>1, StepOver DEF Handlers!On

LEMMA GateIsGood == ASSUME HandlersInv, Handlers!Origin \/ Handlers!RoleHeld PROVE Good(request')
<1> DEFINE held == \/ (Handlers!Step = "origin" /\ request.trusted)
                   \/ (Handlers!Step = "role" /\ request.as.role >= Handlers!Requires.role)
<1>1. (Handlers!Step = "origin" \/ Handlers!Step = "role") /\
            request' = IF held THEN Handlers!On ELSE Handlers!Ended("forbidden")
    BY DEF Handlers!Origin, Handlers!RoleHeld, Handlers!Holds
<1>2. /\ Good(request) /\ request.answer = "none" /\ request.at <= Len(StepsOf(request))
      /\ StepsOf(request)[request.at] = Handlers!Step /\ Handlers!Requires = HandlerFor(request)
    BY <1>1, AtStep DEF Handlers!Requires, HandlerFor
<1>3. CASE held
    <2>1. Good(Handlers!On)
        BY <1>2, <1>3, HeldIsGood DEF Handlers!On
    <2> QED BY <1>1, <1>3, <2>1
<1>4. CASE ~held
    <2>1. request.as \in Asker
        BY <1>2 DEF Good, HTyped, Request
    <2>2. PlaceOf(request) \in DOMAIN RoleGates \cup DOMAIN KeyGates \cup DOMAIN Documented =>
              ~Fits(PlaceOf(request), request.trusted, request.as)
        BY <1>1, <1>2, <1>4, <2>1, TurnedAway
    <2>3. Good(Handlers!Ended("forbidden"))
        BY <1>1, <1>2, <2>2, EndIsGood DEF Handlers!Ended
    <2> QED BY <1>1, <1>4, <2>3
<1> QED BY <1>3, <1>4

LEMMA LookIsGood == ASSUME HandlersInv, Handlers!Look \/ Handlers!Tell \/ Handlers!Closed
PROVE Good(request')
<1>1. CASE Handlers!Look
    <2>1. Good(Handlers!On) /\ Good(Handlers!Ended("error"))
        BY <1>1, OnIsGoodHere, ErrorIsGood DEF Handlers!Look
    <2> QED BY <1>1, <2>1 DEF Handlers!Look, Handlers!MayFail
<1>2. CASE Handlers!Tell
    <2>1. Good(Handlers!On)
        BY <1>2, OnIsGoodHere DEF Handlers!Tell
    <2> QED BY <1>2, <2>1 DEF Handlers!Tell
<1>3. CASE Handlers!Closed
    <2>1. Good(Handlers!Ended("error"))
        BY <1>3, ErrorIsGood DEF Handlers!Closed
    <2> QED BY <1>3, <2>1 DEF Handlers!Closed
<1> QED BY <1>1, <1>2, <1>3

LEMMA CommitIsGood == ASSUME HandlersInv, Handlers!Commit PROVE Good(request')
<1>1. /\ Good(request) /\ request.answer = "none" /\ request.at <= Len(StepsOf(request))
      /\ StepsOf(request)[request.at] \in {"commit", "also"} /\ request \in Request
    BY AtStep DEF Handlers!Commit, Good, HTyped
<1>2. Good(Handlers!On) /\ Good(Handlers!Ended("error"))
    BY OnIsGoodHere, ErrorIsGood DEF Handlers!Commit
<1> DEFINE next == request.at + 1
           more == request.changes + 1
           n == [request EXCEPT !.at = next, !.changes = more, !.by = request.as, !.kept = request.kept]
<1>3. Good(n)
    BY <1>1, ChangeIsGood DEF Request
<1>4. next \in Nat /\ more \in Nat /\
            Handlers!Changed = [[request EXCEPT !.at = next] EXCEPT !.changes = more, !.by = request.as]
    BY <1>1 DEF Handlers!Changed, Handlers!On, Request
<1> HIDE DEF next, more
<1>5. Handlers!Changed = n
    BY <1>1, <1>4 DEF Request
<1> QED BY <1>2, <1>3, <1>5 DEF Handlers!Commit, Handlers!MayFail

LEMMA OnceIsGood == ASSUME HandlersInv, Handlers!Once PROVE Good(request')
<1>1. /\ Good(request) /\ request.answer = "none" /\ request.at <= Len(StepsOf(request))
      /\ StepsOf(request)[request.at] = "once" /\ request \in Request
    BY AtStep DEF Handlers!Once, Good, HTyped
<1>2. Good(Handlers!On) /\ Good(Handlers!Ended("error"))
    BY OnIsGoodHere, ErrorIsGood DEF Handlers!Once
<1>3. CASE request.kept = "nothing"
    <2> DEFINE next == request.at + 1
               more == request.changes + 1
               n == [request EXCEPT !.at = next, !.changes = more, !.by = request.as, !.kept = "done"]
               m == [Handlers!Ended("error") EXCEPT !.kept = "refused"]
    <2>1. Good(n)
        BY <1>1, <1>3, ChangeIsGood
    <2>2. next \in Nat /\ more \in Nat /\
                Handlers!Changed = [[request EXCEPT !.at = next] EXCEPT !.changes = more, !.by = request.as]
        BY <1>1 DEF Handlers!Changed, Handlers!On, Request
    <2> HIDE DEF next, more
    <2>3. [Handlers!Changed EXCEPT !.kept = "done"] = n
        BY <1>1, <2>2 DEF Request
    <2>4. Good(m)
        <3> DEFINE e == Handlers!Ended("error")
        <3>1. e \in Request /\ e.kept = "nothing" /\ Good(e)
            BY <1>1, <1>2, <1>3 DEF Handlers!Ended, Request
        <3> HIDE DEF e
        <3> DEFINE k == [e EXCEPT !.kept = "refused"]
        <3>2. /\ k \in Request /\ k.trusted = e.trusted /\ k.method = e.method /\ k.path = e.path
              /\ k.at = e.at /\ k.answer = e.answer /\ k.changes = e.changes /\ k.as = e.as
              /\ k.by = e.by /\ k.earlier = e.earlier /\ k.kept = "refused"
            BY <3>1 DEF Request
        <3> HIDE DEF k
        <3>3. PlaceOf(k) = PlaceOf(e) /\ HandlerFor(k) = HandlerFor(e) /\ StepsOf(k) = StepsOf(e)
            BY <3>2 DEF PlaceOf, HandlerFor, StepsOf
        <3>4. Good(k)
            BY <3>1, <3>2, <3>3
               DEF Good, HTyped, Routed, Shown, Seen, Member, Entitled, Settled, OnceOnly, Told
        <3> QED BY <3>4 DEF e, k
    <2> QED BY <1>2, <1>3, <2>1, <2>3, <2>4 DEF Handlers!Once
<1>4. CASE request.kept # "nothing"
    BY <1>2, <1>4 DEF Handlers!Once
<1> QED BY <1>3, <1>4

LEMMA EndingIsGood == ASSUME HandlersInv, Handlers!Answer \/ Handlers!Lose PROVE Good(request')
<1>1. Good(request) /\ request.answer = "none"
    BY DEF HandlersInv, Handlers!Answer, Handlers!Lose
<1>2. CASE Handlers!Answer
    <2>1. request.at = Len(StepsOf(request)) + 1
        <3>1. Len(StepsOf(request)) \in Nat /\ request.at \in 1 .. Len(StepsOf(request)) + 1
            BY <1>1, HandlerSound DEF Good, HTyped, Handlers!SoundAt, StepsOf
        <3> QED BY <3>1, <1>2 DEF Handlers!Answer, Handlers!Steps, Handlers!Requires, StepsOf,
            HandlerFor
    <2>2. Good(Handlers!Ended("ok"))
        BY <1>1, <2>1, EndIsGood DEF Handlers!Ended
    <2> QED BY <1>2, <2>2 DEF Handlers!Answer
<1>3. CASE Handlers!Lose
    <2>1. Good(Handlers!Ended("lost"))
        BY <1>1, EndIsGood DEF Handlers!Ended
    <2> QED BY <1>3, <2>1 DEF Handlers!Lose
<1> QED BY <1>2, <1>3

LEMMA AskingAgainIsGood == ASSUME HandlersInv, Handlers!AskAgain PROVE Good(request')
<1>1. Good(request) /\ request \in Request /\ request.answer \in {"error", "lost"}
    BY DEF HandlersInv, Handlers!AskAgain, Good, HTyped
<1> DEFINE tries == request.tries + 1
           earlier == request.earlier + request.changes
<1>2. tries \in Nat
    BY <1>1 DEF Request
<1>3. request' = [request EXCEPT !.at = 1, !.as = Handlers!Nobody, !.answer = "none", !.tries = tries,
                                 !.earlier = earlier, !.changes = 0]
    BY DEF Handlers!AskAgain
<1> QED BY <1>1, <1>2, <1>3, AskAgainIsGood

LEMMA ProceedIsGood == ASSUME HandlersInv, Handlers!Proceed PROVE Good(request')
BY SessionIsGood, KeyIsGood, GateIsGood, LookIsGood, CommitIsGood, OnceIsGood, EndingIsGood,
       AskingAgainIsGood
   DEF Handlers!Proceed

LEMMA HandlersStep == HandlersInv /\ [Handlers!Next]_(Handlers!vars) => HandlersInv'
<1> SUFFICES ASSUME HandlersInv, [Handlers!Next]_(Handlers!vars) PROVE HandlersInv'
    OBVIOUS
<1>1. CASE Handlers!Proceed
    <2>1. Good(request')
        BY <1>1, ProceedIsGood
    <2>2. request'.path = request.path
        <3>1. request \in Request
            BY DEF HandlersInv, Good, HTyped
        <3> QED BY <1>1, <3>1
           DEF Handlers!Proceed, Handlers!Session, Handlers!Key, Handlers!Origin,
               Handlers!RoleHeld, Handlers!Look, Handlers!Tell, Handlers!Closed,
               Handlers!Commit, Handlers!Once, Handlers!Answer, Handlers!Lose,
               Handlers!AskAgain, Handlers!Holds, Handlers!MayFail, Handlers!On, Handlers!Ended, Handlers!Changed, Request
    <2> QED BY <1>1, <2>1, <2>2 DEF Handlers!Proceed, HandlersInv, CallerInv, Member
<1>2. CASE Handlers!LoseAuthority
    <2>1. CASE whose' = Handlers!Nobody
        BY <2>1, <1>2 DEF Handlers!LoseAuthority, HandlersInv, CallerInv, Handlers!Nobody, Asker
    <2>2. ASSUME NEW role \in 1 .. whose.role - 1, whose' = [whose EXCEPT !.role = role]
          PROVE  HandlersInv'
        BY <2>2, <1>2 DEF Handlers!LoseAuthority, HandlersInv, CallerInv, Asker, Member
    <2> QED BY <1>2, <2>1, <2>2 DEF Handlers!LoseAuthority
<1>3. CASE UNCHANGED Handlers!vars
    BY <1>3 DEF Handlers!vars, HandlersInv, CallerInv, Member
<1> QED BY <1>1, <1>2, <1>3 DEF Handlers!Next

LEMMA HandlersSafe == HandlersInv => Handlers!EffectsAsDeclared /\ Handlers!ErrorsLeaveNothing
<1> SUFFICES ASSUME HandlersInv PROVE Handlers!EffectsAsDeclared /\ Handlers!ErrorsLeaveNothing
    OBVIOUS
<1>1. Good(request) /\ request \in Request /\ Handlers!Place = PlaceOf(request)
    BY DEF HandlersInv, Good, HTyped, Handlers!Place, PlaceOf
<1>2. \A who : Handlers!HoldsGate(who) <=> Fits(Handlers!Place, request.trusted, who)
    BY DEF Handlers!HoldsGate, Fits
<1>3. request.answer = "ok" /\ Handlers!Place \in DOMAIN Documented => Handlers!HoldsGate(request.as)
    <2>1. ASSUME request.answer = "ok", Handlers!Place \in DOMAIN Documented
          PROVE  Handlers!AssuredAt(PlaceOf(request), HandlerFor(request), request.at)
        BY <2>1, <1>1, HandlerSound DEF Good, HTyped, Handlers!SoundAt, Handlers!GateHolds,
               Told, StepsOf
    <2> QED BY <1>1, <1>2, <2>1, ShownFits DEF Good
<1>4. Handlers!EffectsAsDeclared
    BY <1>1, <1>2, <1>3 DEF Handlers!EffectsAsDeclared, Good, Entitled, Told
<1>5. Handlers!ErrorsLeaveNothing
    BY <1>1 DEF Handlers!ErrorsLeaveNothing, Good, Settled, OnceOnly
<1> QED BY <1>4, <1>5

-----------------------------------------------------------------------------
(* Pages.                                                                    *)

\* Row r comes behind row s in the order of the collection.
Comes(r, s) == Paging!Behind(r, shelf[s].at, s)

ShelfTyped ==
    /\ kind \in {"position", "row"}
    /\ shelf \in [Row -> [at : Position \cup {Nothing}, listed : BOOLEAN]]
    /\ \A r \in Row : shelf[r].listed => shelf[r].at # Nothing

\* Created rows are strictly and totally ordered.
LEMMA RowsOrdered ==
    ASSUME ShelfTyped
    PROVE  /\ \A r \in Paging!Created : r \in Int /\ shelf[r].at \in Int
           /\ Paging!Created \subseteq Row /\ Paging!Listed \subseteq Paging!Created
           /\ \A r \in Paging!Created : ~Comes(r, r)
           /\ \A r, s \in Paging!Created : r # s => Comes(r, s) \/ Comes(s, r)
           /\ \A r, s \in Paging!Created : ~(Comes(r, s) /\ Comes(s, r))
           /\ \A r, s, t \in Paging!Created : Comes(r, s) /\ Comes(s, t) => Comes(r, t)
<1>1. \A r \in Paging!Created : r \in Int /\ shelf[r].at \in Int
    BY PagingConstants DEF ShelfTyped, Paging!Created
<1>2. Paging!Created \subseteq Row /\ Paging!Listed \subseteq Paging!Created
    BY DEF ShelfTyped, Paging!Created, Paging!Listed
<1>3. \A r \in Paging!Created : ~Comes(r, r)
    BY <1>1 DEF Comes, Paging!Behind
<1>4. \A r, s \in Paging!Created : r # s => Comes(r, s) \/ Comes(s, r)
    BY <1>1 DEF Comes, Paging!Behind
<1>5. \A r, s \in Paging!Created : ~(Comes(r, s) /\ Comes(s, r))
    BY <1>1 DEF Comes, Paging!Behind
<1>6. \A r, s, t \in Paging!Created : Comes(r, s) /\ Comes(s, t) => Comes(r, t)
    BY <1>1 DEF Comes, Paging!Behind
<1> QED BY <1>1, <1>2, <1>3, <1>4, <1>5, <1>6

\* Any of finitely many rows have a first and a last.
LEMMA FirstExists ==
    ASSUME ShelfTyped, NEW A, IsFiniteSet(A), A \subseteq Paging!Created, NEW T \in SUBSET A, T # {}
    PROVE  \E x \in T : \A y \in T \ {x} : Comes(y, x)
<1> DEFINE Ahead(y) == {s \in A : Comes(y, s)}
           F == {Ahead(y) : y \in T}
           R == StrictSubsetOrdering(A)
<1>1. IsWellFoundedOn(R, FiniteSubsetsOf(A)) /\ FiniteSubsetsOf(A) = SUBSET A
    BY FS_StrictSubsetOrderingWellFounded, FS_FiniteSubsetsOfFinite
<1>2. F \subseteq FiniteSubsetsOf(A) /\ F # {}
    <2>1. \A y \in T : Ahead(y) \in SUBSET A
        OBVIOUS
    <2> HIDE DEF Ahead
    <2> QED BY <1>1, <2>1
<1>3. \E m \in F : \A f \in F : <<f, m>> \notin R
    <2> HIDE DEF R, F
    <2> QED BY <1>1, <1>2, WFMin
<1>4. PICK x \in T : \A y \in T : <<Ahead(y), Ahead(x)>> \notin R
    BY <1>3
<1>5. ASSUME NEW y \in T \ {x}, ~Comes(y, x) PROVE FALSE
    <2>1. Comes(x, y)
        BY <1>5, RowsOrdered
    <2>2. Ahead(y) \subseteq Ahead(x)
        BY <2>1, RowsOrdered
    <2>3. y \in Ahead(x) /\ y \notin Ahead(y)
        BY <2>1, RowsOrdered
    <2>4. <<Ahead(y), Ahead(x)>> \in R
        BY <2>2, <2>3 DEF StrictSubsetOrdering
    <2> QED BY <1>4, <2>4
<1> QED BY <1>5

LEMMA LastExists ==
    ASSUME ShelfTyped, NEW A, IsFiniteSet(A), A \subseteq Paging!Created, A # {}
    PROVE  \E x \in A : \A y \in A \ {x} : Comes(x, y)
<1> DEFINE Later(y) == {s \in A : Comes(s, y)}
           F == {Later(y) : y \in A}
           R == StrictSubsetOrdering(A)
<1>1. IsWellFoundedOn(R, FiniteSubsetsOf(A)) /\ FiniteSubsetsOf(A) = SUBSET A
    BY FS_StrictSubsetOrderingWellFounded, FS_FiniteSubsetsOfFinite
<1>2. F \subseteq FiniteSubsetsOf(A) /\ F # {}
    <2>1. \A y \in A : Later(y) \in SUBSET A
        OBVIOUS
    <2> HIDE DEF Later
    <2> QED BY <1>1, <2>1
<1>3. \E m \in F : \A f \in F : <<f, m>> \notin R
    <2> HIDE DEF R, F
    <2> QED BY <1>1, <1>2, WFMin
<1>4. PICK x \in A : \A y \in A : <<Later(y), Later(x)>> \notin R
    BY <1>3
<1>5. ASSUME NEW y \in A \ {x}, ~Comes(x, y) PROVE FALSE
    <2>1. Comes(y, x)
        BY <1>5, RowsOrdered
    <2>2. Later(y) \subseteq Later(x)
        BY <2>1, RowsOrdered
    <2>3. y \in Later(x) /\ y \notin Later(y)
        BY <2>1, RowsOrdered
    <2>4. <<Later(y), Later(x)>> \in R
        BY <2>2, <2>3 DEF StrictSubsetOrdering
    <2> QED BY <1>4, <2>4
<1> QED BY <1>5

\* The first n of some rows: no row outside comes before one of them, and when
\* they are fewer than n they are all.
LEMMA FirstRows ==
    ASSUME ShelfTyped, NEW A, IsFiniteSet(A), A \subseteq Paging!Created, NEW n \in Nat
    PROVE  /\ Paging!First(A, n) \subseteq A /\ IsFiniteSet(Paging!First(A, n))
           /\ \A r \in Paging!First(A, n), s \in A \ Paging!First(A, n) : Comes(s, r)
           /\ Cardinality(Paging!First(A, n)) < n => Paging!First(A, n) = A
<1> DEFINE Ahead(y) == {s \in A : Comes(y, s)}
           P == Paging!First(A, n)
<1>1. P = {r \in A : Cardinality(Ahead(r)) < n}
    BY DEF Paging!First, Comes, Paging!Cardinality, Cardinality
<1>2. P \subseteq A /\ IsFiniteSet(P) /\ Cardinality(P) \in Nat
    BY <1>1, FS_Subset, FS_CardinalityType
<1>3. \A r \in A : IsFiniteSet(Ahead(r)) /\ Cardinality(Ahead(r)) \in Nat
    BY FS_Subset, FS_CardinalityType
<1> HIDE DEF P
<1>4. ASSUME NEW r \in P, NEW s \in A \ P, ~Comes(s, r) PROVE FALSE
    <2>1. Comes(r, s)
        BY <1>2, <1>4, RowsOrdered
    <2>2. Ahead(s) \subseteq Ahead(r)
        BY <1>2, <2>1, RowsOrdered
    <2>3. IsFiniteSet(Ahead(r)) /\ Ahead(s) \in SUBSET Ahead(r) /\ r \in A
        BY <1>2, <1>3, <2>2
    <2>4. Cardinality(Ahead(s)) <= Cardinality(Ahead(r))
        <3> HIDE DEF Ahead
        <3> QED BY <2>3, FS_Subset
    <2>5. Cardinality(Ahead(r)) < n /\ ~(Cardinality(Ahead(s)) < n)
        BY <1>1, <1>4
    <2>6. Cardinality(Ahead(r)) \in Nat /\ Cardinality(Ahead(s)) \in Nat
        BY <1>3, <1>4, <2>3
    <2> HIDE DEF Ahead
    <2> QED BY <2>4, <2>5, <2>6
<1>5. ASSUME P # A, Cardinality(P) < n PROVE FALSE
    <2>1. PICK x \in A \ P : \A y \in (A \ P) \ {x} : Comes(y, x)
        BY <1>2, <1>5, FirstExists
    <2>2. Ahead(x) \subseteq P
        BY <2>1, RowsOrdered
    <2>3. Cardinality(Ahead(x)) <= Cardinality(P)
        <3> HIDE DEF Ahead
        <3> QED BY <1>2, <2>2, FS_Subset
    <2>4. ~(Cardinality(Ahead(x)) < n)
        BY <1>1, <2>1
    <2> QED BY <1>2, <1>3, <1>5, <2>1, <2>3, <2>4
<1>6. Cardinality(P) < n => P = A
    BY <1>5
<1> QED BY <1>2, <1>4, <1>6 DEF P

\* A page, and the row read beyond it.
LEMMA PageOf ==
    ASSUME ShelfTyped, NEW A, IsFiniteSet(A), A \subseteq Paging!Created, NEW n \in Nat \ {0}
    PROVE  LET rows == Paging!First(A, n + 1)
               page == Paging!First(rows, n)
           IN  /\ page \subseteq A /\ IsFiniteSet(page)
               /\ ~(Cardinality(rows) > n) => page = A
               /\ Cardinality(rows) > n =>
                    /\ page # {}
                    /\ \A r \in page, s \in A \ page : Comes(s, r)
<1> DEFINE rows == Paging!First(A, n + 1)
           page == Paging!First(rows, n)
<1> HIDE DEF rows, page
<1>1. n \in Nat /\ n + 1 \in Nat /\ n - 1 \in Nat
    OBVIOUS
<1>2. /\ rows \subseteq A /\ IsFiniteSet(rows)
      /\ \A r \in rows, s \in A \ rows : Comes(s, r)
      /\ Cardinality(rows) < n + 1 => rows = A
    BY <1>1, FirstRows DEF rows
<1>3. /\ page \subseteq rows /\ IsFiniteSet(page)
      /\ \A r \in page, s \in rows \ page : Comes(s, r)
      /\ Cardinality(page) < n => page = rows
    BY <1>1, <1>2, FirstRows DEF page
<1>4. Cardinality(rows) \in Nat /\ Cardinality(page) \in Nat
    BY <1>2, <1>3, FS_CardinalityType
<1>5. ASSUME ~(Cardinality(rows) > n) PROVE page = A
    <2>1. rows = A
        BY <1>1, <1>2, <1>4, <1>5
    <2>2. CASE Cardinality(page) < n
        BY <1>3, <2>1, <2>2
    <2>3. CASE ~(Cardinality(page) < n)
        <3>1. Cardinality(page) <= Cardinality(rows)
            BY <1>2, <1>3, FS_Subset
        <3>2. Cardinality(page) = Cardinality(rows)
            BY <1>1, <1>4, <1>5, <2>3, <3>1
        <3> QED BY <1>2, <1>3, <2>1, <3>2, FS_Subset
    <2> QED BY <2>2, <2>3
<1>6. ASSUME Cardinality(rows) > n PROVE page # {}
    <2>1. CASE page = {}
        <3>1. Cardinality(page) = 0
            BY <2>1, FS_EmptySet
        <3>2. page = rows
            BY <1>1, <1>3, <3>1
        <3> QED BY <1>1, <1>6, <3>1, <3>2
    <2> QED BY <2>1
<1>7. \A r \in page, s \in A \ page : Comes(s, r)
    BY <1>2, <1>3
<1> QED BY <1>2, <1>3, <1>5, <1>6, <1>7 DEF rows, page

CursorRow == [of : {"mine", "theirs"}, id : Row, at : Position]
WalkRow == [cursor : {Nothing} \cup CursorRow, given : SUBSET Row, stayed : SUBSET Row,
            again : BOOLEAN, state : {"new", "going", "over"}, refused : BOOLEAN]

\* Where a cursor stands: every row given so far is the cursor's or before it,
\* and of the rows that stayed those not given are behind it.
Stands(w) ==
    /\ w.cursor.of = "mine" /\ w.cursor.id \in Paging!Created
    /\ w.cursor.at = shelf[w.cursor.id].at
    /\ \A r \in w.given : r = w.cursor.id \/ Comes(w.cursor.id, r)
    /\ \A r \in w.stayed \ w.given : Comes(r, w.cursor.id)

WalkInOrder(w) ==
    /\ w \in WalkRow
    /\ ~w.again
    /\ w.given \subseteq Paging!Created /\ w.stayed \subseteq Paging!Listed
    /\ w.cursor # Nothing => Stands(w)
    /\ w.state = "new" => w.cursor = Nothing /\ w.given = {}
    /\ w.state = "going" => w.cursor # Nothing
    /\ w.state = "over" => w.stayed \subseteq w.given

PagesInv == ShelfTyped /\ IsFiniteSet(Paging!Created) /\ WalkInOrder(walk)

\* The rows a page of the walk is taken from come behind all it was given.
LEMMA AfterIsNew ==
    ASSUME PagesInv, walk.state # "over"
    PROVE  /\ Paging!After(walk.cursor) \subseteq Paging!Listed
           /\ Paging!After(walk.cursor) \cap walk.given = {}
           /\ walk.state = "new" => Paging!After(walk.cursor) = Paging!Listed
           /\ walk.state = "going" => walk.stayed \ walk.given \subseteq Paging!After(walk.cursor)
           /\ walk.state = "going" => \A r \in Paging!After(walk.cursor), g \in walk.given : Comes(r, g)
<1> DEFINE c == walk.cursor
<1>1. ShelfTyped /\ WalkInOrder(walk) /\ walk.state \in {"new", "going"}
    BY DEF PagesInv, WalkInOrder, WalkRow
<1>2. CASE walk.state = "new"
    BY <1>1, <1>2 DEF WalkInOrder, Paging!After
<1>3. CASE walk.state = "going"
    <2>1. c # Nothing /\ Stands(walk)
        BY <1>1, <1>3 DEF WalkInOrder
    <2>2. (IF kind = "row" THEN shelf[c.id].at ELSE c.at) = shelf[c.id].at
        BY <2>1 DEF Stands
    <2>3. Paging!After(c) = {r \in Paging!Listed : Comes(r, c.id)}
        BY <2>1, <2>2 DEF Paging!After, Comes
    <2>4. /\ c.id \in Paging!Created
          /\ walk.given \subseteq Paging!Created /\ walk.stayed \subseteq Paging!Listed
        BY <1>1, <2>1 DEF Stands, WalkInOrder
    <2>5. \A r \in Paging!After(c), g \in walk.given : Comes(r, g)
        BY <1>1, <2>1, <2>3, <2>4, RowsOrdered DEF Stands
    <2>6. Paging!After(c) \cap walk.given = {}
        BY <1>1, <2>3, <2>4, <2>5, RowsOrdered
    <2> QED BY <1>3, <2>1, <2>3, <2>4, <2>5, <2>6 DEF Stands
<1> QED BY <1>1, <1>2, <1>3

\* What the walk becomes.
LEMMA AnswerInOrder ==
    ASSUME PagesInv, walk.state # "over", NEW n \in Nat \ {0}
    PROVE  WalkInOrder(Paging!Answer(walk.cursor, n))
<1> DEFINE A == Paging!After(walk.cursor)
           rows == Paging!First(A, n + 1)
           page == Paging!First(rows, n)
           more == Cardinality(rows) > n
           stayed == IF walk.state = "new" THEN Paging!Listed ELSE walk.stayed
           given == walk.given \cup page
           next == IF more THEN Paging!Cursor("mine", Paging!Last(page)) ELSE Nothing
           w == Paging!Answer(walk.cursor, n)
<1>1. /\ ShelfTyped /\ IsFiniteSet(Paging!Created) /\ WalkInOrder(walk) /\ walk \in WalkRow
      /\ walk.state \in {"new", "going"}
    BY DEF PagesInv, WalkInOrder, WalkRow
<1>2. /\ A \subseteq Paging!Listed /\ A \cap walk.given = {}
      /\ walk.state = "new" => A = Paging!Listed
      /\ walk.state = "going" => walk.stayed \ walk.given \subseteq A
      /\ walk.state = "going" => \A r \in A, g \in walk.given : Comes(r, g)
    BY AfterIsNew
<1>3. /\ A \subseteq Paging!Created /\ IsFiniteSet(A)
      /\ Paging!Created \subseteq Row /\ Paging!Listed \subseteq Paging!Created
    BY <1>1, <1>2, RowsOrdered, FS_Subset
<1>4. /\ page \subseteq A /\ IsFiniteSet(page)
      /\ ~more => page = A
      /\ more => page # {} /\ \A r \in page, s \in A \ page : Comes(s, r)
    BY <1>1, <1>3, PageOf
<1>5. Paging!Accepted(walk.cursor)
    BY <1>1 DEF Paging!Accepted, WalkInOrder, Stands
<1>6. Paging!Page(walk.cursor, n) = [rows |-> page, next |-> next]
    BY DEF Paging!Page, Paging!Cardinality, Cardinality
<1> HIDE DEF A, rows, page, more
<1>7. w = [walk EXCEPT !.cursor = next, !.given = given,
                       !.again = walk.again \/ page \cap walk.given # {},
                       !.stayed = stayed,
                       !.state = IF next = Nothing THEN "over" ELSE "going",
                       !.refused = FALSE]
    BY <1>5, <1>6 DEF Paging!Answer
<1>8. given \subseteq Paging!Created /\ stayed \subseteq Paging!Listed /\ page \cap walk.given = {}
    BY <1>1, <1>2, <1>3, <1>4 DEF WalkInOrder
<1>9. stayed \ given \subseteq A \ page
    BY <1>1, <1>2 DEF WalkInOrder
<1>10. ASSUME more
       PROVE  /\ Paging!Last(page) \in page
              /\ next \in CursorRow /\ next # Nothing
              /\ next.of = "mine" /\ next.id = Paging!Last(page)
              /\ next.at = shelf[Paging!Last(page)].at
              /\ \A r \in given : r = Paging!Last(page) \/ Comes(Paging!Last(page), r)
              /\ \A r \in stayed \ given : Comes(r, Paging!Last(page))
    <2>1. \E x \in page : \A s \in page \ {x} : Comes(x, s)
        BY <1>1, <1>3, <1>4, <1>10, LastExists
    <2>2. /\ Paging!Last(page) \in page
          /\ \A s \in page \ {Paging!Last(page)} : Comes(Paging!Last(page), s)
        BY <2>1 DEF Paging!Last, Comes
    <2>3. next = [of |-> "mine", id |-> Paging!Last(page), at |-> shelf[Paging!Last(page)].at]
        BY <1>10 DEF Paging!Cursor
    <2>4. Paging!Last(page) \in Row /\ shelf[Paging!Last(page)].at \in Position
        BY <1>1, <1>3, <1>4, <2>2 DEF ShelfTyped, Paging!Created
    <2>5. next \in CursorRow
        BY <2>3, <2>4 DEF CursorRow
    <2>6. next # Nothing
        BY <2>5, PagingConstants DEF CursorRow
    <2>7. \A r \in walk.given : Comes(Paging!Last(page), r)
        BY <1>1, <1>2, <1>4, <2>2 DEF WalkInOrder
    <2> QED BY <1>4, <1>9, <1>10, <2>2, <2>3, <2>5, <2>6, <2>7
<1>11. ~more => next = Nothing /\ stayed \subseteq given
    BY <1>4, <1>9
<1>12. next \in {Nothing} \cup CursorRow
    BY <1>10, <1>11
<1> HIDE DEF next, given, stayed, w
<1>13. /\ w.cursor = next /\ w.given = given /\ w.stayed = stayed /\ w.again = FALSE
       /\ w.state = IF next = Nothing THEN "over" ELSE "going"
       /\ w \in WalkRow
    <2>1. walk.again = FALSE
        BY <1>1 DEF WalkInOrder, WalkRow
    <2>2. given \subseteq Row /\ stayed \subseteq Row
        BY <1>3, <1>8
    <2> QED BY <1>1, <1>7, <1>8, <1>12, <2>1, <2>2 DEF WalkRow
<1>14. ASSUME more PROVE WalkInOrder(w)
    <2>1. Stands(w)
        BY <1>3, <1>4, <1>10, <1>13, <1>14 DEF Stands
    <2>2. w.state = "going" /\ w.cursor # Nothing
        BY <1>10, <1>13, <1>14
    <2>3. /\ w.given \subseteq Paging!Created /\ w.stayed \subseteq Paging!Listed
          /\ w \in WalkRow /\ ~w.again
        BY <1>8, <1>13
    <2> QED BY <2>1, <2>2, <2>3 DEF WalkInOrder
<1>15. ASSUME ~more PROVE WalkInOrder(w)
    <2>1. w.state = "over" /\ w.cursor = Nothing /\ w.stayed \subseteq w.given
        BY <1>11, <1>13, <1>15
    <2>2. /\ w.given \subseteq Paging!Created /\ w.stayed \subseteq Paging!Listed
          /\ w \in WalkRow /\ ~w.again
        BY <1>8, <1>13
    <2> QED BY <2>1, <2>2 DEF WalkInOrder
<1> QED BY <1>14, <1>15 DEF w

\* A step of the collection leaves the rows that were created where they are.
LEMMA ShelfMoves ==
    ASSUME PagesInv, ShelfTyped', kind' = kind,
           IsFiniteSet(Paging!Created'), Paging!Created \subseteq Paging!Created',
           \A r \in Paging!Created : shelf'[r].at = shelf[r].at,
           walk' \in WalkRow, walk'.stayed \subseteq walk.stayed, walk'.stayed \subseteq Paging!Listed',
           walk'.cursor = walk.cursor, walk'.given = walk.given, walk'.again = walk.again,
           walk'.state = walk.state
    PROVE  PagesInv'
<1>1. WalkInOrder(walk) /\ Paging!Created \subseteq Row
    BY RowsOrdered DEF PagesInv
<1>2. \A r, s \in Paging!Created : Comes(r, s)' <=> Comes(r, s)
    BY <1>1 DEF Comes, Paging!Behind
<1>3. ASSUME walk.cursor # Nothing PROVE Stands(walk)'
    <2>1. Stands(walk) /\ walk.given \subseteq Paging!Created /\ walk.stayed \subseteq Paging!Created
        BY <1>1, <1>3, RowsOrdered DEF PagesInv, WalkInOrder
    <2> QED BY <1>2, <2>1 DEF Stands, Comes, Paging!Behind
<1>4. WalkInOrder(walk)'
    BY <1>1, <1>3 DEF WalkInOrder
<1> QED BY <1>4 DEF PagesInv

LEMMA PagesInitial == Paging!Init => PagesInv
<1> SUFFICES ASSUME Paging!Init PROVE PagesInv
    OBVIOUS
<1>1. ShelfTyped
    BY DEF Paging!Init, ShelfTyped
<1>2. Paging!Created = {} /\ IsFiniteSet(Paging!Created)
    BY FS_EmptySet DEF Paging!Init, Paging!Created
<1>3. WalkInOrder(walk)
    BY DEF Paging!Init, WalkInOrder, WalkRow
<1> QED BY <1>1, <1>2, <1>3 DEF PagesInv

LEMMA PagesStep == PagesInv /\ [Paging!Next]_(Paging!pagesVars) => PagesInv'
<1> SUFFICES ASSUME PagesInv, [Paging!Next]_(Paging!pagesVars) PROVE PagesInv'
    OBVIOUS
<1>1. ShelfTyped /\ IsFiniteSet(Paging!Created) /\ WalkInOrder(walk) /\ walk \in WalkRow
    BY DEF PagesInv, WalkInOrder
<1>2. /\ Paging!Created \subseteq Row /\ Paging!Listed \subseteq Paging!Created
      /\ walk.stayed \subseteq Paging!Listed
    BY <1>1, RowsOrdered DEF WalkInOrder
<1>3. ASSUME NEW r \in Row, Paging!Create(r) PROVE PagesInv'
    <2>1. PICK at \in Position : shelf' = [shelf EXCEPT ![r] = [at |-> at, listed |-> TRUE]]
        BY <1>3 DEF Paging!Create
    <2>2. at # Nothing /\ r \notin Paging!Created /\ kind' = kind /\ walk' = walk
        BY <1>3, PagingConstants DEF Paging!Create
    <2> DEFINE x == [at |-> at, listed |-> TRUE]
    <2>3. x \in [at : Position \cup {Nothing}, listed : BOOLEAN] /\ x.at = at /\ x.listed
        OBVIOUS
    <2> HIDE DEF x
    <2>4. shelf'[r] = x /\ \A s \in Row \ {r} : shelf'[s] = shelf[s]
        BY <1>1, <2>1 DEF ShelfTyped, x
    <2>5. ShelfTyped'
        BY <1>1, <2>1, <2>2, <2>3, <2>4 DEF ShelfTyped, x
    <2>6. Paging!Created' = Paging!Created \cup {r}
        BY <2>2, <2>3, <2>4 DEF Paging!Created
    <2>7. IsFiniteSet(Paging!Created')
        BY <1>1, <2>6, FS_AddElement
    <2>8. Paging!Listed \subseteq Paging!Listed'
        BY <1>2, <2>2, <2>4 DEF Paging!Listed
    <2> QED BY <1>1, <1>2, <2>2, <2>4, <2>5, <2>6, <2>7, <2>8, ShelfMoves
<1>4. ASSUME NEW r \in Paging!Created, NEW listed \in BOOLEAN,
             shelf' = [shelf EXCEPT ![r].listed = listed], kind' = kind
      PROVE  /\ ShelfTyped' /\ Paging!Created' = Paging!Created
             /\ \A s \in Paging!Created : shelf'[s].at = shelf[s].at
             /\ \A s \in Row : s \in Paging!Listed' <=> IF s = r THEN listed ELSE s \in Paging!Listed
    <2> DEFINE x == [shelf[r] EXCEPT !.listed = listed]
    <2>1. shelf[r] \in [at : Position \cup {Nothing}, listed : BOOLEAN] /\ shelf[r].at # Nothing
        BY <1>1, <1>2 DEF ShelfTyped, Paging!Created
    <2>2. /\ x \in [at : Position \cup {Nothing}, listed : BOOLEAN]
          /\ x.at = shelf[r].at /\ x.listed = listed
        BY <2>1
    <2>3. shelf' = [shelf EXCEPT ![r] = x]
        BY <1>4
    <2> HIDE DEF x
    <2>4. shelf'[r] = x /\ \A s \in Row \ {r} : shelf'[s] = shelf[s]
        BY <1>1, <1>2, <2>3 DEF ShelfTyped
    <2>5. ShelfTyped'
        BY <1>1, <1>2, <1>4, <2>1, <2>2, <2>3, <2>4 DEF ShelfTyped
    <2>6. Paging!Created' = Paging!Created
        BY <1>2, <2>1, <2>2, <2>4 DEF Paging!Created
    <2>7. \A s \in Paging!Created : shelf'[s].at = shelf[s].at
        BY <1>2, <2>2, <2>4
    <2>8. \A s \in Row : s \in Paging!Listed' <=> IF s = r THEN listed ELSE s \in Paging!Listed
        BY <2>2, <2>4 DEF Paging!Listed
    <2> QED BY <2>5, <2>6, <2>7, <2>8
<1>5. ASSUME NEW r \in Row, Paging!Leave(r) PROVE PagesInv'
    <2> DEFINE stayed == walk.stayed \ {r}
               w == [walk EXCEPT !.stayed = stayed]
    <2>1. /\ w \in WalkRow /\ w.stayed = stayed /\ w.cursor = walk.cursor /\ w.given = walk.given
          /\ w.again = walk.again /\ w.state = walk.state
        BY <1>1 DEF WalkRow
    <2>2. /\ walk' = w /\ kind' = kind /\ r \in Paging!Created
          /\ shelf' = [shelf EXCEPT ![r].listed = FALSE]
        BY <1>2, <1>5 DEF Paging!Leave
    <2> HIDE DEF w
    <2>3. /\ ShelfTyped' /\ Paging!Created' = Paging!Created
          /\ \A s \in Paging!Created : shelf'[s].at = shelf[s].at
          /\ \A s \in Row : s \in Paging!Listed' <=> IF s = r THEN FALSE ELSE s \in Paging!Listed
        BY <1>4, <2>2
    <2>4. stayed \subseteq Paging!Listed'
        BY <1>2, <2>3
    <2> QED BY <1>1, <2>1, <2>2, <2>3, <2>4, ShelfMoves
<1>6. ASSUME NEW r \in Row, Paging!Return(r) PROVE PagesInv'
    <2>1. /\ walk' = walk /\ kind' = kind /\ r \in Paging!Created
          /\ shelf' = [shelf EXCEPT ![r].listed = TRUE]
        BY <1>6 DEF Paging!Return
    <2>2. /\ ShelfTyped' /\ Paging!Created' = Paging!Created
          /\ \A s \in Paging!Created : shelf'[s].at = shelf[s].at
          /\ \A s \in Row : s \in Paging!Listed' <=> IF s = r THEN TRUE ELSE s \in Paging!Listed
        BY <1>4, <2>1
    <2>3. walk.stayed \subseteq Paging!Listed'
        BY <1>2, <2>2
    <2> QED BY <1>1, <2>1, <2>2, <2>3, ShelfMoves
<1>7. ASSUME WalkInOrder(walk'), UNCHANGED <<kind, shelf>> PROVE PagesInv'
    <2>1. Paging!Created' = Paging!Created /\ Paging!Listed' = Paging!Listed /\ ShelfTyped'
        BY <1>1, <1>7 DEF Paging!Created, Paging!Listed, ShelfTyped
    <2>2. WalkInOrder(walk)'
        BY <1>7, <2>1 DEF WalkInOrder, Stands, Comes, Paging!Behind
    <2> QED BY <1>1, <2>1, <2>2 DEF PagesInv
<1>8. ASSUME NEW n \in 1..PageLimit, Paging!Ask(walk.cursor, n) PROVE PagesInv'
    <2>1. n \in Nat \ {0}
        BY PagingConstants
    <2>2. walk.state # "over" /\ walk' = Paging!Answer(walk.cursor, n) /\ UNCHANGED <<kind, shelf>>
        BY <1>8 DEF Paging!Ask
    <2>3. WalkInOrder(walk')
        BY <2>1, <2>2, AnswerInOrder
    <2> QED BY <1>7, <2>2, <2>3
<1>9. ASSUME NEW n \in 1..PageLimit, NEW r \in Paging!Created, Paging!Ask(Paging!Cursor("theirs", r), n)
      PROVE PagesInv'
    <2> DEFINE w == [walk EXCEPT !.refused = TRUE]
    <2>1. ~Paging!Accepted(Paging!Cursor("theirs", r))
        <3>1. Paging!Cursor("theirs", r) \in CursorRow /\ Paging!Cursor("theirs", r).of = "theirs"
            BY <1>1, <1>2 DEF Paging!Cursor, CursorRow, ShelfTyped, Paging!Created
        <3> QED BY <3>1, PagingConstants DEF Paging!Accepted, CursorRow
    <2>2. walk' = w /\ UNCHANGED <<kind, shelf>>
        BY <1>9, <2>1 DEF Paging!Ask, Paging!Answer
    <2>3. /\ w \in WalkRow /\ w.stayed = walk.stayed /\ w.cursor = walk.cursor
          /\ w.given = walk.given /\ w.again = walk.again /\ w.state = walk.state
        BY <1>1 DEF WalkRow
    <2> HIDE DEF w
    <2>4. WalkInOrder(w)
        BY <1>1, <2>3 DEF WalkInOrder, Stands
    <2> QED BY <1>7, <2>2, <2>4
<1>10. CASE UNCHANGED Paging!pagesVars
    BY <1>1, <1>7, <1>10 DEF Paging!pagesVars
<1> QED BY <1>3, <1>5, <1>6, <1>8, <1>9, <1>10 DEF Paging!Next

LEMMA PagesSafe == PagesInv => Paging!WalkIsComplete
BY DEF PagesInv, WalkInOrder, Paging!WalkIsComplete

-----------------------------------------------------------------------------
(* Tenant context: TenantContext.                                            *)

SettingsOf(call) == [role |-> call.role, org |-> call.org, user |-> call.user]

\* A task's calls share one connection, and the context of that connection is
\* what each of them asked for.
CallsAgree ==
    \A t \in Task : \A i \in 1..Len(stack[t]) :
        /\ stack[t][i].on = Tenants!Top(t).on
        /\ pool[stack[t][i].on] = SettingsOf(stack[t][i])

\* No two tasks share a connection.
Exclusive ==
    \A t, u \in Task :
        t # u /\ stack[t] # << >> /\ stack[u] # << >> => Tenants!Top(t).on # Tenants!Top(u).on

\* Only tenant calls nest.
OnlyTenantsNest ==
    \A t \in Task : stack[t] # << >> /\ Tenants!Top(t).role # "signalstack_runtime" => Len(stack[t]) = 1

\* A connection at rest is clean.
RestIsClean == \A c \in Connection \ Tenants!Used : pool[c] = Tenants!Clean

\* Where the posture is required nobody works before it was attested, and it is
\* attested of complete policies only.
WorkIsPostured ==
    /\ posture = "attested" => policies
    /\ required => \A t \in Task : stack[t] # << >> => posture = "attested"

ReadsApart == required => \A pair \in reads : pair[1] = pair[2]

TInv == /\ Tenants!TenantTypeOK /\ CallsAgree /\ Exclusive /\ OnlyTenantsNest
        /\ RestIsClean /\ WorkIsPostured /\ ReadsApart

-----------------------------------------------------------------------------
(* Sequences of calls.                                                       *)

LEMMA LastCall ==
    ASSUME NEW s \in Seq(Tenants!Calls), s # << >>
    PROVE  Len(s) \in Nat \ {0} /\ Len(s) \in 1..Len(s) /\ s[Len(s)] \in Tenants!Calls
<1>1. Len(s) \in Nat \ {0} BY EmptySeq
<1>2. Len(s) \in 1..Len(s) BY <1>1
<1> QED BY <1>1, <1>2, ElementOfSeq

LEMMA TopIsACall ==
    ASSUME Tenants!TenantTypeOK, NEW t \in Task, stack[t] # << >>
    PROVE  /\ Len(stack[t]) \in Nat \ {0} /\ Len(stack[t]) \in 1..Len(stack[t])
           /\ Tenants!Top(t) = stack[t][Len(stack[t])]
           /\ Tenants!Top(t) \in Tenants!Calls /\ Tenants!Top(t).on \in Connection
<1>1. stack[t] \in Seq(Tenants!Calls) BY DEF Tenants!TenantTypeOK
<1>2. Tenants!Top(t) \in Tenants!Calls BY <1>1, LastCall DEF Tenants!Top
<1>3. Tenants!Top(t).on \in Connection BY <1>2 DEF Tenants!Calls
<1> QED BY <1>1, <1>2, <1>3, LastCall DEF Tenants!Top

LEMMA CallIsACall ==
    ASSUME Tenants!TenantTypeOK, NEW t \in Task, NEW i \in 1..Len(stack[t])
    PROVE  stack[t][i] \in Tenants!Calls /\ stack[t] # << >> /\ Len(stack[t]) \in Nat
<1>1. stack[t] \in Seq(Tenants!Calls) BY DEF Tenants!TenantTypeOK
<1>2. stack[t][i] \in Tenants!Calls BY <1>1, ElementOfSeq
<1>3. Len(stack[t]) \in Nat BY <1>1, LenProperties
<1>4. stack[t] # << >> BY <1>1, <1>3, EmptySeq
<1> QED BY <1>2, <1>3, <1>4

\* The connection of a task at work is in use.
LEMMA TopIsUsed ==
    ASSUME NEW t \in Task, stack[t] # << >>
    PROVE  Tenants!Top(t).on \in Tenants!Used
BY DEF Tenants!Used

LEMMA UsedByATask ==
    ASSUME NEW c \in Tenants!Used
    PROVE  \E t \in Task : stack[t] # << >> /\ c = Tenants!Top(t).on
BY DEF Tenants!Used

\* Two tasks at work never meet on a connection.
LEMMA OthersKeepAway ==
    ASSUME TInv, NEW t \in Task, NEW u \in Task, u # t, stack[t] # << >>,
           NEW i \in 1..Len(stack[u])
    PROVE  stack[u][i].on # Tenants!Top(t).on
<1>1. stack[u] # << >> BY CallIsACall DEF TInv
<1>2. stack[u][i].on = Tenants!Top(u).on BY DEF TInv, CallsAgree
<1> QED BY <1>1, <1>2 DEF TInv, Exclusive

-----------------------------------------------------------------------------
LEMMA InitHolds == Tenants!Init => TInv
<1> SUFFICES ASSUME Tenants!Init PROVE TInv OBVIOUS
<1>1. Tenants!TenantTypeOK
    <2>1. << >> \in Seq(Tenants!Calls) BY EmptySeq
    <2> QED BY <2>1 DEF Tenants!Init, Tenants!TenantTypeOK, Tenants!Clean
<1>2. \A t \in Task : stack[t] = << >> /\ Len(stack[t]) = 0 BY EmptySeq DEF Tenants!Init
<1>3. CallsAgree BY <1>2 DEF CallsAgree
<1>4. Exclusive /\ OnlyTenantsNest BY <1>2 DEF Exclusive, OnlyTenantsNest
<1>5. RestIsClean BY DEF Tenants!Init, RestIsClean
<1>6. WorkIsPostured /\ ReadsApart BY <1>2 DEF Tenants!Init, WorkIsPostured, ReadsApart
<1> QED BY <1>1, <1>3, <1>4, <1>5, <1>6 DEF TInv

\* A step that leaves the calls and the pool alone keeps what is said of them.
LEMMA SameCalls ==
    ASSUME TInv, UNCHANGED <<pool, stack>>
    PROVE  CallsAgree' /\ Exclusive' /\ OnlyTenantsNest' /\ RestIsClean'
BY DEF TInv, CallsAgree, Exclusive, OnlyTenantsNest, RestIsClean, Tenants!Top, Tenants!Used,
       SettingsOf

LEMMA InspectKeeps == ASSUME TInv, Tenants!Inspect PROVE TInv'
<1>1. Tenants!TenantTypeOK' BY DEF TInv, Tenants!TenantTypeOK, Tenants!Inspect
<1>2. CallsAgree' /\ Exclusive' /\ OnlyTenantsNest' /\ RestIsClean' BY SameCalls DEF Tenants!Inspect
<1>3. WorkIsPostured' BY DEF TInv, WorkIsPostured, Tenants!Inspect
<1>4. ReadsApart' BY DEF TInv, ReadsApart, Tenants!Inspect
<1> QED BY <1>1, <1>2, <1>3, <1>4 DEF TInv

LEMMA RestartKeeps == ASSUME TInv, Tenants!Restart PROVE TInv'
<1>1. Tenants!TenantTypeOK' BY DEF TInv, Tenants!TenantTypeOK, Tenants!Restart
<1>2. CallsAgree' /\ Exclusive' /\ OnlyTenantsNest' /\ RestIsClean' BY SameCalls DEF Tenants!Restart
<1>3. WorkIsPostured' BY DEF TInv, WorkIsPostured, Tenants!Restart
<1>4. ReadsApart' BY DEF TInv, ReadsApart, Tenants!Restart
<1> QED BY <1>1, <1>2, <1>3, <1>4 DEF TInv

\* What a statement reads is its own organization's, because the context in
\* force on its connection is what the innermost call asked for.
LEMMA StatementKeeps ==
    ASSUME TInv, NEW t \in Task, Tenants!Statement(t) PROVE TInv'
<1>1. Tenants!Top(t) \in Tenants!Calls /\ Len(stack[t]) \in 1..Len(stack[t]) /\
            Tenants!Top(t) = stack[t][Len(stack[t])]
    BY TopIsACall DEF TInv, Tenants!Statement
<1>2. pool[Tenants!Top(t).on] = SettingsOf(Tenants!Top(t)) BY <1>1 DEF TInv, CallsAgree
<1>3. Tenants!Visible(pool[Tenants!Top(t).on]) \subseteq TenantOrg BY DEF Tenants!Visible
<1>4. Tenants!TenantTypeOK'
    <2>1. Tenants!Top(t).org \in TenantOrg \cup {Nothing} BY <1>1 DEF Tenants!Calls
    <2>2. reads' \subseteq (TenantOrg \cup {Nothing}) \X TenantOrg
        BY <1>3, <2>1 DEF Tenants!Statement, TInv, Tenants!TenantTypeOK
    <2> QED BY <2>2 DEF Tenants!Statement, TInv, Tenants!TenantTypeOK
<1>5. CallsAgree' /\ Exclusive' /\ OnlyTenantsNest' /\ RestIsClean'
    BY SameCalls DEF Tenants!Statement
<1>6. WorkIsPostured' BY DEF TInv, WorkIsPostured, Tenants!Statement
<1>7. ReadsApart'
    <2>1. SUFFICES ASSUME required PROVE \A pair \in reads' : pair[1] = pair[2]
        BY DEF ReadsApart, Tenants!Statement
    <2>2. policies BY <2>1 DEF TInv, WorkIsPostured, Tenants!Statement
    <2>3. pool[Tenants!Top(t).on].org = Tenants!Top(t).org BY <1>2 DEF SettingsOf
    <2>4. \A o \in Tenants!Visible(pool[Tenants!Top(t).on]) : o = Tenants!Top(t).org
        BY <2>2, <2>3 DEF Tenants!Visible
    <2> QED BY <2>1, <2>4 DEF Tenants!Statement, TInv, ReadsApart
<1> QED BY <1>4, <1>5, <1>6, <1>7 DEF TInv

-----------------------------------------------------------------------------
\* A step that moves one task, on its own connection or on a free one, keeps
\* what is said of the calls and the pool.
LEMMA OneTaskMoves ==
    ASSUME TInv, Tenants!TenantTypeOK', NEW t \in Task, NEW c \in Connection,
           stack[t] # << >> => c = Tenants!Top(t).on,
           stack[t] = << >> => c \notin Tenants!Used,
           \A u \in Task : u # t => stack'[u] = stack[u],
           \A d \in Connection : d # c => pool'[d] = pool[d],
           \A i \in 1..Len(stack'[t]) :
                stack'[t][i].on = c /\ pool'[c] = SettingsOf(stack'[t][i]),
           stack'[t] = << >> => pool'[c] = Tenants!Clean,
           stack'[t] # << >> /\ Tenants!Top(t)'.role # "signalstack_runtime" => Len(stack'[t]) = 1
    PROVE  CallsAgree' /\ Exclusive' /\ OnlyTenantsNest' /\ RestIsClean'
<1>1. \A u \in Task : u # t => Tenants!Top(u)' = Tenants!Top(u) BY DEF Tenants!Top
<1>2. stack'[t] # << >> => Tenants!Top(t)'.on = c
    <2>1. stack'[t] \in Seq(Tenants!Calls) BY DEF Tenants!TenantTypeOK
    <2>2. stack'[t] # << >> => Len(stack'[t]) \in 1..Len(stack'[t]) BY <2>1, LastCall
    <2> QED BY <2>2 DEF Tenants!Top
<1>3. ASSUME NEW u \in Task, u # t, stack[u] # << >> PROVE Tenants!Top(u).on # c
    <2>1. Tenants!Top(u).on \in Tenants!Used BY <1>3, TopIsUsed
    <2> QED BY <1>3, <2>1 DEF TInv, Exclusive
<1>4. CallsAgree'
    <2> SUFFICES ASSUME NEW u \in Task, NEW i \in 1..Len(stack'[u])
        PROVE stack'[u][i].on = Tenants!Top(u)'.on /\ pool'[stack'[u][i].on] = SettingsOf(stack'[u][i])
        BY DEF CallsAgree, SettingsOf
    <2>1. CASE u = t
        <3>1. stack'[t] # << >> BY <2>1, EmptySeq DEF Tenants!TenantTypeOK
        <3> QED BY <2>1, <3>1, <1>2
    <2>2. CASE u # t
        <3>1. stack'[u] = stack[u] /\ i \in 1..Len(stack[u]) BY <2>2
        <3>2. stack[u] # << >> /\ stack[u][i] \in Tenants!Calls BY <3>1, CallIsACall DEF TInv
        <3>3. stack[u][i].on = Tenants!Top(u).on /\ pool[stack[u][i].on] = SettingsOf(stack[u][i])
            BY <3>1 DEF TInv, CallsAgree
        <3>4. stack[u][i].on \in Connection BY <3>2 DEF Tenants!Calls
        <3>5. stack[u][i].on # c BY <2>2, <3>2, <3>3, <1>3
        <3> QED BY <1>1, <2>2, <3>1, <3>3, <3>4, <3>5
    <2> QED BY <2>1, <2>2
<1>5. Exclusive'
    <2> SUFFICES ASSUME NEW u \in Task, NEW v \in Task, u # v, stack'[u] # << >>, stack'[v] # << >>
        PROVE Tenants!Top(u)'.on # Tenants!Top(v)'.on
        BY DEF Exclusive
    <2>1. CASE u # t /\ v # t BY <1>1, <2>1 DEF TInv, Exclusive
    <2>2. CASE u = t BY <1>1, <1>2, <1>3, <2>2
    <2>3. CASE v = t BY <1>1, <1>2, <1>3, <2>3
    <2> QED BY <2>1, <2>2, <2>3
<1>6. OnlyTenantsNest' BY <1>1 DEF TInv, OnlyTenantsNest
<1>7. RestIsClean'
    <2> SUFFICES ASSUME NEW d \in Connection, d \notin Tenants!Used' PROVE pool'[d] = Tenants!Clean
        BY DEF RestIsClean
    <2>1. CASE d = c
        <3>1. stack'[t] = << >> BY <1>2, <2>1 DEF Tenants!Used
        <3> QED BY <2>1, <3>1
    <2>2. CASE d # c
        <3>1. ASSUME d \in Tenants!Used PROVE FALSE
            <4>1. PICK u \in Task : stack[u] # << >> /\ d = Tenants!Top(u).on BY <3>1, UsedByATask
            <4>2. u # t BY <2>2, <4>1
            <4>3. stack'[u] # << >> /\ d = Tenants!Top(u)'.on BY <1>1, <4>1, <4>2
            <4> QED BY <4>3 DEF Tenants!Used
        <3> QED BY <2>2, <3>1 DEF TInv, RestIsClean
    <2> QED BY <2>1, <2>2
<1> QED BY <1>4, <1>5, <1>6, <1>7

LEMMA BeginKeeps ==
    ASSUME TInv, NEW t \in Task, NEW role \in Tenants!Roles, NEW org \in TenantOrg \cup {Nothing},
           NEW user \in User \cup {Nothing}, Tenants!Begin(t, role, org, user)
    PROVE  TInv'
<1>1. PICK c \in Connection \ Tenants!Used :
        /\ pool' = [pool EXCEPT ![c] = [role |-> role, org |-> org, user |-> user]]
        /\ stack' = [stack EXCEPT ![t] = <<[role |-> role, org |-> org, user |-> user, on |-> c]>>]
    BY DEF Tenants!Begin
<1> DEFINE call == [role |-> role, org |-> org, user |-> user, on |-> c]
<1>2. call \in Tenants!Calls BY DEF Tenants!Calls
<1>3. <<call>> \in Seq(Tenants!Calls) /\ Len(<<call>>) = 1 /\ <<call>>[1] = call /\ <<call>> # << >>
    BY <1>2
<1>4. stack \in [Task -> Seq(Tenants!Calls)] /\
            pool \in [Connection -> [role : Tenants!Roles \cup {"login"},
            org : TenantOrg \cup {Nothing},
                        user : User \cup {Nothing}]]
    BY DEF TInv, Tenants!TenantTypeOK
<1>5. stack'[t] = <<call>> /\ \A u \in Task : u # t => stack'[u] = stack[u] BY <1>1, <1>4
<1>6. pool'[c] = SettingsOf(call) /\ \A d \in Connection : d # c => pool'[d] = pool[d]
    BY <1>1, <1>4 DEF SettingsOf
<1>7. Tenants!TenantTypeOK'
    <2>1. stack' \in [Task -> Seq(Tenants!Calls)] BY <1>1, <1>3, <1>4
    <2>2. pool' \in [Connection -> [role : Tenants!Roles \cup {"login"}, org : TenantOrg \cup {Nothing},
                                    user : User \cup {Nothing}]]
        BY <1>1, <1>4
    <2> QED BY <2>1, <2>2 DEF Tenants!Begin, TInv, Tenants!TenantTypeOK
<1>8. stack[t] = << >> BY DEF Tenants!Begin
<1>9. \A i \in 1..Len(stack'[t]) : stack'[t][i] = call BY <1>3, <1>5
<1> HIDE DEF call
<1>10. call.on = c BY DEF call
<1>11. Len(stack'[t]) = 1 /\ stack'[t] # << >> BY <1>3, <1>5
<1>12. CallsAgree' /\ Exclusive' /\ OnlyTenantsNest' /\ RestIsClean'
    BY <1>5, <1>6, <1>7, <1>8, <1>9, <1>10, <1>11, OneTaskMoves
<1>13. WorkIsPostured'
    BY <1>5 DEF TInv, WorkIsPostured, Tenants!Begin, Tenants!Postured
<1>14. ReadsApart' BY DEF TInv, ReadsApart, Tenants!Begin
<1> QED BY <1>7, <1>12, <1>13, <1>14 DEF TInv

LEMMA NestedTenantKeeps ==
    ASSUME TInv, NEW t \in Task, NEW org \in TenantOrg, NEW user \in User \cup {Nothing},
           Tenants!NestedTenant(t, org, user)
    PROVE  TInv'
<1> DEFINE call == [role |-> "signalstack_runtime", org |-> org,
                    user |-> Tenants!Top(t).user, on |-> Tenants!Top(t).on]
<1>1. stack[t] # << >> /\ Tenants!Top(t).role = "signalstack_runtime" /\ Tenants!Top(t).org = org
    BY DEF Tenants!NestedTenant, Tenants!NestedAllowed
<1>2. Tenants!Top(t) \in Tenants!Calls /\ Tenants!Top(t).on \in Connection /\
            Len(stack[t]) \in 1..Len(stack[t])
        /\ Tenants!Top(t) = stack[t][Len(stack[t])] /\ Len(stack[t]) \in Nat \ {0}
    BY <1>1, TopIsACall DEF TInv
<1>3. call \in Tenants!Calls BY <1>2 DEF Tenants!Calls, Tenants!Roles
<1>4. stack[t] \in Seq(Tenants!Calls) /\ stack \in [Task -> Seq(Tenants!Calls)]
    BY DEF TInv, Tenants!TenantTypeOK
<1>5. stack' = [stack EXCEPT ![t] = Append(stack[t], call)] /\ pool' = pool
    BY DEF Tenants!NestedTenant
<1>6. stack'[t] = Append(stack[t], call) /\ \A u \in Task : u # t => stack'[u] = stack[u]
    BY <1>4, <1>5
<1>7. pool[Tenants!Top(t).on] = SettingsOf(Tenants!Top(t)) BY <1>2 DEF TInv, CallsAgree
<1>8. SettingsOf(call) = SettingsOf(Tenants!Top(t)) BY <1>1 DEF SettingsOf
<1>9. call.on = Tenants!Top(t).on /\ call.role = "signalstack_runtime" OBVIOUS
<1> HIDE DEF call
<1>10. /\ Append(stack[t], call) \in Seq(Tenants!Calls)
       /\ Len(Append(stack[t], call)) = Len(stack[t]) + 1
       /\ \A i \in 1..Len(stack[t]) : Append(stack[t], call)[i] = stack[t][i]
       /\ Append(stack[t], call)[Len(stack[t]) + 1] = call
    BY <1>3, <1>4, AppendProperties
<1>11. Tenants!TenantTypeOK'
    BY <1>4, <1>5, <1>10 DEF Tenants!NestedTenant, TInv, Tenants!TenantTypeOK
<1>12. Tenants!Top(t)' = call /\ stack'[t] # << >>
    <2>1. Tenants!Top(t)' = call BY <1>6, <1>10 DEF Tenants!Top
    <2>2. Len(stack'[t]) # 0 BY <1>2, <1>6, <1>10
    <2> QED BY <2>1, <2>2, EmptySeq
<1>13. ASSUME NEW i \in 1..Len(stack'[t])
       PROVE  stack'[t][i].on = Tenants!Top(t).on /\ pool'[Tenants!Top(t).on] = SettingsOf(stack'[t][i])
    <2>1. CASE i = Len(stack[t]) + 1 BY <1>5, <1>6, <1>7, <1>8, <1>9, <1>10, <2>1
    <2>2. CASE i # Len(stack[t]) + 1
        <3>1. i \in 1..Len(stack[t]) BY <1>2, <1>6, <1>10, <2>2
        <3>2. stack'[t][i] = stack[t][i] BY <1>6, <1>10, <3>1
        <3>3. stack[t][i].on = Tenants!Top(t).on /\ pool[stack[t][i].on] = SettingsOf(stack[t][i])
            BY <3>1 DEF TInv, CallsAgree
        <3> QED BY <1>5, <3>2, <3>3
    <2> QED BY <2>1, <2>2
<1>14. CallsAgree' /\ Exclusive' /\ OnlyTenantsNest' /\ RestIsClean'
    <2>1. \A d \in Connection : d # Tenants!Top(t).on => pool'[d] = pool[d] BY <1>5
    <2>2. Tenants!Top(t)'.role = "signalstack_runtime" BY <1>9, <1>12
    <2> QED BY <1>1, <1>2, <1>6, <1>11, <1>12, <1>13, <2>1, <2>2, OneTaskMoves
<1>15. WorkIsPostured'
    BY <1>1, <1>6 DEF TInv, WorkIsPostured, Tenants!NestedTenant
<1>16. ReadsApart' BY DEF TInv, ReadsApart, Tenants!NestedTenant
<1> QED BY <1>11, <1>14, <1>15, <1>16 DEF TInv

LEMMA ContextRewritten ==
    ASSUME NEW r \in [role : Tenants!Roles \cup {"login"}, org : TenantOrg \cup {Nothing},
                      user : User \cup {Nothing}], NEW o, NEW u
    PROVE  [r EXCEPT !.org = o, !.user = u] = [role |-> r.role, org |-> o, user |-> u]
<1> DEFINE new == [r EXCEPT !.org = o, !.user = u]
<1>1. new \in [role : Tenants!Roles \cup {"login"}, org : TenantOrg \cup {Nothing, o},
                user : User \cup {Nothing, u}]
    OBVIOUS
<1>2. new.role = r.role /\ new.org = o /\ new.user = u OBVIOUS
<1> HIDE DEF new
<1>3. new = [role |-> new.role, org |-> new.org, user |-> new.user] BY <1>1
<1>4. new = [role |-> r.role, org |-> o, user |-> u] BY <1>2, <1>3
<1> QED BY <1>4 DEF new

\* Only a control transaction changes its context, and nothing nests in one.
LEMMA SetAuthTransactionContextKeeps ==
    ASSUME TInv, NEW t \in Task, NEW org \in TenantOrg \cup {Nothing},
           NEW user \in User \cup {Nothing}, Tenants!SetAuthTransactionContext(t, org, user)
    PROVE  TInv'
<1>1. stack[t] # << >> /\ Tenants!Top(t).role = "signalstack_control"
    BY DEF Tenants!SetAuthTransactionContext
<1>2. Tenants!Top(t) \in Tenants!Calls /\ Tenants!Top(t).on \in Connection /\
            Tenants!Top(t) = stack[t][Len(stack[t])]
    BY <1>1, TopIsACall DEF TInv
<1>3. Len(stack[t]) = 1 BY <1>1 DEF TInv, OnlyTenantsNest
<1>4. stack \in [Task -> Seq(Tenants!Calls)] /\ stack[t] \in Seq(Tenants!Calls)
       /\ pool \in [Connection -> [role : Tenants!Roles \cup {"login"}, org : TenantOrg \cup {Nothing},
                                   user : User \cup {Nothing}]]
    BY DEF TInv, Tenants!TenantTypeOK
<1> DEFINE call == [stack[t][1] EXCEPT !.org = org, !.user = user]
           told == [pool[Tenants!Top(t).on] EXCEPT !.org = org, !.user = user]
<1>5. stack[t][1] = Tenants!Top(t) BY <1>2, <1>3
<1>6. call \in Tenants!Calls /\ call.on = Tenants!Top(t).on /\ call.role = Tenants!Top(t).role
    BY <1>2, <1>5 DEF Tenants!Calls
<1>7. stack' = [stack EXCEPT ![t] = [stack[t] EXCEPT ![1] = call]]
    BY <1>3, <1>4 DEF Tenants!SetAuthTransactionContext
<1>8. pool' = [pool EXCEPT ![Tenants!Top(t).on] = told]
    BY <1>2, <1>4 DEF Tenants!SetAuthTransactionContext
<1>9. told = SettingsOf(call)
    <2>1. pool[Tenants!Top(t).on] = SettingsOf(Tenants!Top(t)) BY <1>2, <1>3 DEF TInv, CallsAgree
    <2>2. told = [role |-> Tenants!Top(t).role, org |-> org, user |-> user]
        <3>1. pool[Tenants!Top(t).on].role = Tenants!Top(t).role BY <2>1 DEF SettingsOf
        <3>2. pool[Tenants!Top(t).on] \in [role : Tenants!Roles \cup {"login"}, org : TenantOrg \cup {Nothing},
                                   user : User \cup {Nothing}]
            BY <1>2, <1>4
        <3> DEFINE old == pool[Tenants!Top(t).on]
        <3>3. old \in [role : Tenants!Roles \cup {"login"}, org : TenantOrg \cup {Nothing},
                       user : User \cup {Nothing}]
            BY <3>2
        <3>4. old.role = Tenants!Top(t).role /\ told = [old EXCEPT !.org = org, !.user = user]
            BY <3>1
        <3> HIDE DEF old, told
        <3>5. [old EXCEPT !.org = org, !.user = user] =
                [role |-> old.role, org |-> org, user |-> user]
            BY ONLY <3>3, ContextRewritten
        <3> QED BY <3>4, <3>5
    <2>3. call.role = Tenants!Top(t).role /\ call.org = org /\ call.user = user
        BY <1>2, <1>5 DEF Tenants!Calls
    <2> QED BY <2>2, <2>3 DEF SettingsOf
<1>10. told \in [role : Tenants!Roles \cup {"login"}, org : TenantOrg \cup {Nothing},
                        user : User \cup {Nothing}]
    BY <1>2, <1>4
<1> HIDE DEF call, told
<1>11. stack'[t] = [stack[t] EXCEPT ![1] = call] /\ \A u \in Task : u # t => stack'[u] = stack[u]
    BY <1>4, <1>7
<1>12. stack'[t] \in Seq(Tenants!Calls) /\ Len(stack'[t]) = 1 /\ stack'[t][1] = call
    BY <1>3, <1>4, <1>6, <1>11, ExceptSeq
<1>13. stack'[t] # << >> BY <1>12, EmptySeq
<1>14. pool'[Tenants!Top(t).on] = told /\ \A d \in Connection : d # Tenants!Top(t).on
             => pool'[d] = pool[d]
    BY <1>2, <1>4, <1>8
<1>15. Tenants!TenantTypeOK'
    <2>1. stack' \in [Task -> Seq(Tenants!Calls)] BY <1>4, <1>7, <1>11, <1>12
    <2>2. pool' \in [Connection -> [role : Tenants!Roles \cup {"login"}, org : TenantOrg \cup {Nothing},
                                    user : User \cup {Nothing}]]
        BY <1>4, <1>8, <1>10
    <2> QED BY <2>1, <2>2 DEF Tenants!SetAuthTransactionContext, TInv, Tenants!TenantTypeOK
<1>16. \A i \in 1..Len(stack'[t]) : stack'[t][i] = call BY <1>12
<1>17. CallsAgree' /\ Exclusive' /\ OnlyTenantsNest' /\ RestIsClean'
    BY <1>1, <1>2, <1>6, <1>9, <1>11, <1>12, <1>13, <1>14, <1>15, <1>16, OneTaskMoves
<1>18. WorkIsPostured'
    BY <1>1, <1>11 DEF TInv, WorkIsPostured, Tenants!SetAuthTransactionContext
<1>19. ReadsApart' BY DEF TInv, ReadsApart, Tenants!SetAuthTransactionContext
<1> QED BY <1>15, <1>17, <1>18, <1>19 DEF TInv

\* A nested call leaves the context to the calls around it, which asked for the
\* same; the outermost one cleans the connection.
LEMMA ReturnKeeps ==
    ASSUME TInv, NEW t \in Task, Tenants!Return(t) PROVE TInv'
<1>1. stack[t] # << >> BY DEF Tenants!Return
<1>2. Tenants!Top(t) \in Tenants!Calls /\ Tenants!Top(t).on \in Connection /\
            Len(stack[t]) \in Nat \ {0}
    BY <1>1, TopIsACall DEF TInv
<1> DEFINE rest == SubSeq(stack[t], 1, Len(stack[t]) - 1)
<1>3. stack \in [Task -> Seq(Tenants!Calls)] /\ stack[t] \in Seq(Tenants!Calls)
       /\ pool \in [Connection -> [role : Tenants!Roles \cup {"login"}, org : TenantOrg \cup {Nothing},
                                   user : User \cup {Nothing}]]
    BY DEF TInv, Tenants!TenantTypeOK
<1>4. stack' = [stack EXCEPT ![t] = rest] BY DEF Tenants!Return
<1>5. rest \in Seq(Tenants!Calls) /\ Len(rest) = Len(stack[t]) - 1
        /\ \A i \in 1..Len(rest) : rest[i] = stack[t][i]
    <2>1. 1 \in Int /\ Len(stack[t]) - 1 \in Int BY <1>2
    <2>2. \A i \in 1..(Len(stack[t]) - 1) : i \in 1..Len(stack[t]) BY <1>2
    <2>3. \A i \in 1..(Len(stack[t]) - 1) : stack[t][i] \in Tenants!Calls
        BY <1>3, <2>2, ElementOfSeq
    <2>4. /\ rest \in Seq(Tenants!Calls)
          /\ Len(rest) = IF 1 <= Len(stack[t]) - 1 THEN (Len(stack[t]) - 1) - 1 + 1 ELSE 0
          /\ \A i \in 1..((Len(stack[t]) - 1) - 1 + 1) : rest[i] = stack[t][1 + i - 1]
        BY <2>1, <2>3, SubSeqProperties
    <2>5. Len(rest) = Len(stack[t]) - 1 BY <1>2, <2>4
    <2>6. \A i \in 1..Len(rest) : rest[i] = stack[t][i]
        <3> TAKE i \in 1..Len(rest)
        <3>1. i \in 1..((Len(stack[t]) - 1) - 1 + 1) /\ 1 + i - 1 = i BY <1>2, <2>5
        <3> QED BY <2>4, <3>1
    <2> QED BY <2>4, <2>5, <2>6
<1> HIDE DEF rest
<1>6. stack'[t] = rest /\ \A u \in Task : u # t => stack'[u] = stack[u] BY <1>3, <1>4
<1>7. pool' = IF Len(stack[t]) = 1 THEN [pool EXCEPT ![Tenants!Top(t).on] = Tenants!Clean] ELSE pool
    BY DEF Tenants!Return
<1>8. \A d \in Connection : d # Tenants!Top(t).on => pool'[d] = pool[d] BY <1>2, <1>3, <1>7
<1>9. Tenants!TenantTypeOK'
    <2>1. Tenants!Clean \in [role : Tenants!Roles \cup {"login"}, org : TenantOrg \cup {Nothing},
                        user : User \cup {Nothing}]
        BY DEF Tenants!Clean
    <2>2. pool' \in [Connection -> [role : Tenants!Roles \cup {"login"}, org : TenantOrg \cup {Nothing},
                                    user : User \cup {Nothing}]]
        BY <1>3, <1>7, <2>1
    <2>3. stack' \in [Task -> Seq(Tenants!Calls)] BY <1>3, <1>4, <1>5
    <2> QED BY <2>2, <2>3 DEF Tenants!Return, TInv, Tenants!TenantTypeOK
<1>10. stack'[t] = << >> => pool'[Tenants!Top(t).on] = Tenants!Clean
    <2>1. stack'[t] = << >> => Len(stack[t]) = 1 BY <1>2, <1>5, <1>6, EmptySeq
    <2> QED BY <1>2, <1>3, <1>7, <2>1
<1>11. ASSUME NEW i \in 1..Len(stack'[t])
       PROVE  stack'[t][i].on = Tenants!Top(t).on /\ pool'[Tenants!Top(t).on] = SettingsOf(stack'[t][i])
    <2>1. i \in 1..Len(rest) /\ stack'[t][i] = stack[t][i] BY <1>5, <1>6
    <2>2. i \in 1..Len(stack[t]) /\ Len(stack[t]) # 1
        <3>1. \A n \in Nat \ {0} : \A j \in 1..(n - 1) : j \in 1..n /\ n # 1 OBVIOUS
        <3>2. i \in 1..(Len(stack[t]) - 1) BY <1>5, <2>1
        <3> QED BY <1>2, <3>1, <3>2
    <2>3. stack[t][i].on = Tenants!Top(t).on /\ pool[stack[t][i].on] = SettingsOf(stack[t][i])
        BY <2>2 DEF TInv, CallsAgree
    <2> QED BY <1>7, <2>1, <2>3, <2>2
<1>12. ASSUME stack'[t] # << >> PROVE Tenants!Top(t)'.role = "signalstack_runtime"
    <2>1. Len(rest) \in 1..Len(rest) /\ Len(rest) # 0 BY <1>5, <1>6, <1>12, LastCall
    <2>2. Tenants!Top(t).role = "signalstack_runtime"
        BY <1>1, <1>2, <1>5, <2>1 DEF TInv, OnlyTenantsNest
    <2>3. Tenants!Top(t)' = rest[Len(rest)] BY <1>6 DEF Tenants!Top
    <2>4. Len(rest) \in 1..Len(stack[t]) BY <1>2, <1>5, <2>1
    <2>5. Tenants!Top(t)' = stack[t][Len(rest)] BY <1>5, <2>1, <2>3
    <2>6. pool[stack[t][Len(rest)].on] = SettingsOf(stack[t][Len(rest)])
            /\ stack[t][Len(rest)].on = Tenants!Top(t).on
        BY <2>4 DEF TInv, CallsAgree
    <2>7. pool[Tenants!Top(t).on] = SettingsOf(Tenants!Top(t))
        BY <1>1, TopIsACall DEF TInv, CallsAgree
    <2> QED BY <2>2, <2>5, <2>6, <2>7 DEF SettingsOf
<1>13. CallsAgree' /\ Exclusive' /\ OnlyTenantsNest' /\ RestIsClean'
    BY <1>1, <1>2, <1>6, <1>8, <1>9, <1>10, <1>11, <1>12, OneTaskMoves
<1>14. WorkIsPostured' BY <1>1, <1>6 DEF TInv, WorkIsPostured, Tenants!Return
<1>15. ReadsApart' BY DEF TInv, ReadsApart, Tenants!Return
<1> QED BY <1>9, <1>13, <1>14, <1>15 DEF TInv

LEMMA ThrowKeeps ==
    ASSUME TInv, NEW t \in Task, Tenants!Throw(t) PROVE TInv'
<1>1. stack[t] # << >> BY DEF Tenants!Throw
<1>2. Tenants!Top(t).on \in Connection BY <1>1, TopIsACall DEF TInv
<1>3. stack \in [Task -> Seq(Tenants!Calls)]
       /\ pool \in [Connection -> [role : Tenants!Roles \cup {"login"}, org : TenantOrg \cup {Nothing},
                                   user : User \cup {Nothing}]]
    BY DEF TInv, Tenants!TenantTypeOK
<1>4. stack' = [stack EXCEPT ![t] = << >>] /\ pool' = [pool EXCEPT ![Tenants!Top(t).on] = Tenants!Clean]
    BY DEF Tenants!Throw
<1>5. stack'[t] = << >> /\ Len(stack'[t]) = 0 /\ \A u \in Task : u # t => stack'[u] = stack[u]
    BY <1>3, <1>4, EmptySeq
<1>6. pool'[Tenants!Top(t).on] = Tenants!Clean /\ \A d \in Connection : d # Tenants!Top(t).on
            => pool'[d] = pool[d]
    BY <1>2, <1>3, <1>4
<1>7. Tenants!TenantTypeOK'
    <2>1. Tenants!Clean \in [role : Tenants!Roles \cup {"login"}, org : TenantOrg \cup {Nothing},
                        user : User \cup {Nothing}]
        BY DEF Tenants!Clean
    <2>2. pool' \in [Connection -> [role : Tenants!Roles \cup {"login"}, org : TenantOrg \cup {Nothing},
                                    user : User \cup {Nothing}]]
        BY <1>3, <1>4, <2>1
    <2>3. << >> \in Seq(Tenants!Calls) BY EmptySeq
    <2>4. stack' \in [Task -> Seq(Tenants!Calls)] BY <1>3, <1>4, <2>3
    <2> QED BY <2>2, <2>4 DEF Tenants!Throw, TInv, Tenants!TenantTypeOK
<1>8. CallsAgree' /\ Exclusive' /\ OnlyTenantsNest' /\ RestIsClean'
    BY <1>1, <1>2, <1>5, <1>6, <1>7, OneTaskMoves
<1>9. WorkIsPostured' BY <1>5 DEF TInv, WorkIsPostured, Tenants!Throw
<1>10. ReadsApart' BY DEF TInv, ReadsApart, Tenants!Throw
<1> QED BY <1>7, <1>8, <1>9, <1>10 DEF TInv

-----------------------------------------------------------------------------
LEMMA TenantStepKeeps == TInv /\ [Tenants!Next]_(Tenants!tenantVars) => TInv'
<1> SUFFICES ASSUME TInv, [Tenants!Next]_(Tenants!tenantVars) PROVE TInv' OBVIOUS
<1>1. CASE Tenants!Inspect BY <1>1, InspectKeeps
<1>2. CASE Tenants!Restart BY <1>2, RestartKeeps
<1>3. ASSUME NEW t \in Task, NEW org \in TenantOrg, NEW user \in User \cup {Nothing},
             Tenants!TenantTransaction(t, org, user)
      PROVE  TInv'
    BY <1>3, BeginKeeps DEF Tenants!TenantTransaction, Tenants!Roles
<1>4. ASSUME NEW t \in Task, NEW org \in TenantOrg, NEW user \in User \cup {Nothing},
             Tenants!NestedTenant(t, org, user)
      PROVE  TInv'
    BY <1>4, NestedTenantKeeps
<1>5. ASSUME NEW t \in Task, NEW org \in TenantOrg \cup {Nothing}, NEW user \in User \cup {Nothing},
             Tenants!AuthContext(t, org, user)
      PROVE  TInv'
    BY <1>5, BeginKeeps DEF Tenants!AuthContext, Tenants!Roles
<1>6. ASSUME NEW t \in Task, NEW org \in TenantOrg \cup {Nothing}, NEW user \in User \cup {Nothing},
             Tenants!SetAuthTransactionContext(t, org, user)
      PROVE  TInv'
    BY <1>6, SetAuthTransactionContextKeeps
<1>7. ASSUME NEW t \in Task, Tenants!WorkerDispatch(t) \/ Tenants!ProviderRouting(t) PROVE TInv'
    BY <1>7, BeginKeeps DEF Tenants!WorkerDispatch, Tenants!ProviderRouting, Tenants!Roles
<1>8. ASSUME NEW t \in Task, Tenants!Statement(t) PROVE TInv' BY <1>8, StatementKeeps
<1>9. ASSUME NEW t \in Task, Tenants!Return(t) PROVE TInv' BY <1>9, ReturnKeeps
<1>10. ASSUME NEW t \in Task, Tenants!Throw(t) PROVE TInv' BY <1>10, ThrowKeeps
<1>11. CASE UNCHANGED Tenants!tenantVars
    <2>1. CallsAgree' /\ Exclusive' /\ OnlyTenantsNest' /\ RestIsClean'
        BY <1>11, SameCalls DEF Tenants!tenantVars
    <2> QED BY <1>11, <2>1 DEF Tenants!tenantVars, TInv, Tenants!TenantTypeOK, WorkIsPostured,
        ReadsApart
<1> QED BY <1>1, <1>2, <1>3, <1>4, <1>5, <1>6, <1>7, <1>8, <1>9, <1>10, <1>11 DEF Tenants!Next

LEMMA TInvIsEnough == TInv => Tenants!TenantsApart
BY DEF TInv, ReadsApart, RestIsClean, CallsAgree, SettingsOf, Tenants!TenantsApart

-----------------------------------------------------------------------------
(* Configuration: Deployment.                                                *)

Letters == [org : Settings!Organizations, by : {"visitor", "member", "key"},
            transport : {"dummy", "twilio"},
            fate : {"due", "simulated", "sent live", "cancelled"}]

\* What OnlyAsConfigured says of the message; what it says of the environment
\* holds of each one.
LetterAsConfigured ==
    letter # Nothing =>
        /\ letter.fate = "sent live" => letter.org = "real"
        /\ letter.by = "visitor" => letter.fate = "simulated"

DInv == env \in Settings!AllEnvironments /\ letter \in {Nothing} \cup Letters /\ LetterAsConfigured

-----------------------------------------------------------------------------
\* The workers never do live and demo work side by side.
LEMMA WorkersApart ==
    ASSUME NEW e, Settings!DirectReadiness(e) = "twilio" PROVE ~Settings!CampaignReadiness(e)
BY DEF Settings!DirectReadiness, Settings!CampaignReadiness

\* Without its override the production gate passes no environment that sends.
LEMMA ProductionGateHolds ==
    ASSUME NEW e, Settings!ProductionLike(e), Settings!GateAllows(e), ~e.override
    PROVE  Settings!DirectReadiness(e) # "twilio"
BY DEF Settings!DirectReadiness, Settings!GateAllows

\* A configuration that lets everybody in has no transport but the dummy one.
LEMMA DemoIsDummy ==
    ASSUME NEW e, Settings!AuthMode(e) = "demo" PROVE Settings!Transport(e) = "dummy"
<1>1. Settings!ConfigIssues(e) = {} /\ Settings!On(e.demo)
  BY DEF Settings!AuthMode
<1>2. "demo provider" \notin Settings!ConfigIssues(e)
  BY <1>1
<1>3. e.provider = "dummy"
  BY <1>1, <1>2 DEF Settings!ConfigIssues
<1> QED BY <1>3 DEF Settings!Transport

\* The hard gate knows the demo organization whatever the environment says.
LEMMA GateKnowsDemo ==
    ASSUME NEW e, NEW org \in Settings!Organizations, NEW r, Settings!HardGate(e, org, r)
    PROVE  org = "real"
BY DEF Settings!HardGate, Settings!Organizations

-----------------------------------------------------------------------------
LEMMA AcceptKeeps ==
    ASSUME DInv, NEW org \in Settings!Organizations, NEW by \in {"visitor", "member", "key"}, NEW r,
           Settings!Accept(org, by, r), by = "visitor" => Settings!Transport(env) = "dummy"
    PROVE  DInv'
<1>1. env.provider \in {"dummy", "twilio", "other"} /\ env' = env
  BY DEF DInv, Settings!AllEnvironments, Settings!Choices, Settings!Accept
<1>2. Settings!Transport(env) \in {"dummy", "twilio"}
  BY <1>1 DEF Settings!Accept, Settings!Transport
<1>3. letter' \in Letters
  BY <1>2 DEF Settings!Accept, Letters
<1>4. letter'.fate # "sent live"
  BY DEF Settings!Accept
<1>5. letter'.by = "visitor" => letter'.fate = "simulated"
  BY DEF Settings!Accept
<1> QED BY <1>1, <1>3, <1>4, <1>5 DEF DInv, LetterAsConfigured

LEMMA DirectPassKeeps ==
    ASSUME DInv, NEW r, Settings!DirectPass(r)
    PROVE  DInv'
<1>1. letter \in Letters /\ letter.fate = "due" /\ env' = env
  BY DEF DInv, Settings!DirectPass
<1>2. letter.by # "visitor"
  BY <1>1 DEF DInv, LetterAsConfigured, Settings!DirectPass
<1>3. letter' \in Letters /\ letter'.org = letter.org /\ letter'.by = letter.by
  BY <1>1 DEF Settings!DirectPass, Letters
<1>4. letter'.fate = "sent live" => Settings!HardGate(env, letter.org, r)
  BY <1>1 DEF Settings!DirectPass, Letters
<1>5. letter.org \in Settings!Organizations
  BY <1>1 DEF Letters
<1>6. letter'.fate = "sent live" => letter'.org = "real"
  BY <1>3, <1>4, <1>5, GateKnowsDemo
<1> QED BY <1>1, <1>2, <1>3, <1>6 DEF DInv, LetterAsConfigured

LEMMA DeploymentStepKeeps ==
    ASSUME Environment \subseteq Settings!AllEnvironments, DInv, [Settings!Next]_(Settings!deploymentVars)
    PROVE  DInv'
<1>1. ASSUME NEW e \in Environment, Settings!Configure(e) PROVE DInv'
  BY <1>1 DEF Settings!Configure, DInv, LetterAsConfigured
<1>2. ASSUME NEW org \in Settings!Organizations, Settings!CreateApiKey(org) PROVE DInv'
  BY <1>2 DEF Settings!CreateApiKey, DInv, LetterAsConfigured
<1>3. ASSUME NEW r \in Settings!Recipient, Settings!VisitorReplies(r) PROVE DInv'
  <2>1. Settings!Transport(env) = "dummy"
    BY <1>3, DemoIsDummy DEF Settings!VisitorReplies
  <2> QED BY <1>3, <2>1, AcceptKeeps DEF Settings!VisitorReplies, Settings!Organizations
<1>4. ASSUME NEW r \in Settings!Recipient, Settings!MemberReplies(r) PROVE DInv'
  BY <1>4, AcceptKeeps DEF Settings!MemberReplies, Settings!Organizations
<1>5. ASSUME NEW r \in Settings!Recipient, NEW org \in Settings!Organizations, Settings!KeySends(org, r)
      PROVE DInv'
  BY <1>5, AcceptKeeps DEF Settings!KeySends
<1>6. ASSUME NEW r \in Settings!Recipient, Settings!DirectPass(r) PROVE DInv'
  BY <1>6, DirectPassKeeps
<1>7. CASE UNCHANGED Settings!deploymentVars
  BY <1>7 DEF Settings!deploymentVars, DInv, LetterAsConfigured
<1> QED BY <1>1, <1>2, <1>3, <1>4, <1>5, <1>6, <1>7 DEF Settings!Next

-----------------------------------------------------------------------------
(* The components beside each other: each one's part of a behaviour is a      *)
(* behaviour of that component.                                              *)

LEMMA ProviderBehaves == ComponentsSpec => Provider!Spec
<1>1. ComponentsInit => Provider!Init
    BY DEF ComponentsInit
<1>2. [ComponentsNext]_allVars => [Provider!Next]_(Provider!vars)
    BY DEF ComponentsNext, ConsentMoves, ProviderMoves, ProjectionMoves, LiveTestMoves,
           ThrottlesMove, RequestsMove, PagesTurn, TenantsMove, SettingsMove,
           allVars, providerVars, Provider!vars
<1> QED BY <1>1, <1>2, PTL DEF ComponentsSpec, Provider!Spec

LEMMA ProjectionBehaves == ComponentsSpec => Projection!Spec
<1>1. ComponentsInit => Projection!Init
    BY DEF ComponentsInit
<1>2. [ComponentsNext]_allVars => [Projection!Next]_(Projection!vars)
    BY DEF ComponentsNext, ConsentMoves, ProviderMoves, ProjectionMoves, LiveTestMoves,
           ThrottlesMove, RequestsMove, PagesTurn, TenantsMove, SettingsMove,
           allVars, projectionVars, Projection!vars
<1> QED BY <1>1, <1>2, PTL DEF ComponentsSpec, Projection!Spec

LEMMA LiveTestBehaves == ComponentsSpec => LiveTest!Spec
<1>1. ComponentsInit => LiveTest!Init
    BY DEF ComponentsInit
<1>2. [ComponentsNext]_allVars => [LiveTest!Next]_(LiveTest!vars)
    BY DEF ComponentsNext, ConsentMoves, ProviderMoves, ProjectionMoves, LiveTestMoves,
           ThrottlesMove, RequestsMove, PagesTurn, TenantsMove, SettingsMove,
           allVars, liveTestVars, LiveTest!vars
<1> QED BY <1>1, <1>2, PTL DEF ComponentsSpec, LiveTest!Spec

LEMMA ThrottleBehaves == ComponentsSpec => Throttle!Spec
<1>1. ComponentsInit => Throttle!Init
    BY DEF ComponentsInit
<1>2. [ComponentsNext]_allVars => [Throttle!Next]_(Throttle!vars)
    BY DEF ComponentsNext, ConsentMoves, ProviderMoves, ProjectionMoves, LiveTestMoves,
           ThrottlesMove, RequestsMove, PagesTurn, TenantsMove, SettingsMove,
           allVars, throttleVars, Throttle!vars
<1> QED BY <1>1, <1>2, PTL DEF ComponentsSpec, Throttle!Spec

\* Requests, pages, tenants and settings have states only in the scene they are in.
RequestsHold == scene = "requests" => HandlersInv
WalksHold == scene = "pages" => PagesInv
TenantsHold == scene = "tenants" => TInv
SettingsHold == scene = "settings" => DInv

LEMMA RequestsStep == RequestsHold /\ [ComponentsNext]_allVars => RequestsHold'
<1> SUFFICES ASSUME RequestsHold, [ComponentsNext]_allVars, scene' = "requests" PROVE HandlersInv'
    BY DEF RequestsHold
<1>1. scene = "requests" /\ [Handlers!Next]_(Handlers!vars)
    BY DEF ComponentsNext, ConsentMoves, ProviderMoves, ProjectionMoves, LiveTestMoves,
           ThrottlesMove, RequestsMove, PagesTurn, TenantsMove, SettingsMove,
           allVars, requestVars, Handlers!vars
<1> QED BY <1>1, HandlersStep DEF RequestsHold

LEMMA WalksStep == WalksHold /\ [ComponentsNext]_allVars => WalksHold'
<1> SUFFICES ASSUME WalksHold, [ComponentsNext]_allVars, scene' = "pages" PROVE PagesInv'
    BY DEF WalksHold
<1>1. scene = "pages" /\ [Paging!Next]_(Paging!pagesVars)
    BY DEF ComponentsNext, ConsentMoves, ProviderMoves, ProjectionMoves, LiveTestMoves,
           ThrottlesMove, RequestsMove, PagesTurn, TenantsMove, SettingsMove,
           allVars, pagesVars, Paging!pagesVars
<1> QED BY <1>1, PagesStep DEF WalksHold

LEMMA TenantsStep == TenantsHold /\ [ComponentsNext]_allVars => TenantsHold'
<1> SUFFICES ASSUME TenantsHold, [ComponentsNext]_allVars, scene' = "tenants" PROVE TInv'
    BY DEF TenantsHold
<1>1. scene = "tenants" /\ [Tenants!Next]_(Tenants!tenantVars)
    BY DEF ComponentsNext, ConsentMoves, ProviderMoves, ProjectionMoves, LiveTestMoves,
           ThrottlesMove, RequestsMove, PagesTurn, TenantsMove, SettingsMove,
           allVars, tenantVars, Tenants!tenantVars
<1> QED BY <1>1, TenantStepKeeps DEF TenantsHold

LEMMA KnownEnvironments == Environment \subseteq Settings!AllEnvironments
<1>1. AllEnvironments = Settings!AllEnvironments
    BY DEF AllEnvironments, Choices, Switch, Flaw,
           Settings!AllEnvironments, Settings!Choices, Settings!Switch, Settings!Flaw
<1> QED BY <1>1, SettingsConstants

LEMMA SettingsStep == SettingsHold /\ [ComponentsNext]_allVars => SettingsHold'
<1> SUFFICES ASSUME SettingsHold, [ComponentsNext]_allVars, scene' = "settings" PROVE DInv'
    BY DEF SettingsHold
<1>1. scene = "settings" /\ [Settings!Next]_(Settings!deploymentVars)
    BY DEF ComponentsNext, ConsentMoves, ProviderMoves, ProjectionMoves, LiveTestMoves,
           ThrottlesMove, RequestsMove, PagesTurn, TenantsMove, SettingsMove,
           allVars, settingsVars, Settings!deploymentVars
<1> QED BY <1>1, KnownEnvironments, DeploymentStepKeeps DEF SettingsHold

-----------------------------------------------------------------------------
(* What the run of the components shows of small instances, for every one.    *)

\* Whatever of rotations, verifications, health checks, imports, revocations and
\* callbacks overlaps, of any number of workers: nothing stands on a revoked
\* account, no organization has two defaults, an answer obtained with a
\* credential since replaced is not recorded, and what a callback was let in on
\* stays in force until it commits (provider-accounts/service.ts:1282,
\* webhook-routing.ts:192).
THEOREM AuthorityStaysCurrent == ComponentsSpec => []AuthorityIsCurrent
BY ProviderBehaves, ProviderSafe, PTL DEF AuthorityIsCurrent

\* In whatever order the carrier's reports arrive, however often and by whichever
\* writer, the message shows the furthest of them while all are of known statuses
\* (delivery-status.ts, repositories/webhooks.ts).
THEOREM FurthestIsShown == ComponentsSpec => []FurthestReportShown
BY ProjectionBehaves, ProjectionSafe, PTL DEF FurthestReportShown

\* No correlated callback of a known status rolls back because the message would
\* take it and the attempt would not.
THEOREM CallbacksNeverConflict == ComponentsSpec => []CorrelatedNeverConflicts
BY ProjectionBehaves, ProjectionNeverConflicts, PTL DEF CorrelatedNeverConflicts

\* No report, known or not, ever replaces a shown failure, turns a success into
\* anything but a success or clears a stamp.
THEOREM OutcomeStaysFinal == ComponentsSpec => OutcomeIsFinal
BY ProjectionBehaves, ProjectionFinal, PTL DEF OutcomeIsFinal

\* However many copies of a live test run or crash, of however many callers, the
\* carrier is called once at most, and whoever is told of success or failure is
\* told as the carrier has it and of its own request (live-test-sms.ts:308).
THEOREM LiveTestsAnswerTruly == ComponentsSpec => []OneCallAnsweredTruly
BY LiveTestBehaves, LiveTestSafe, PTL DEF OneCallAnsweredTruly

\* For every limit, window, block and number of clients: whoever is refused a
\* login is let in at the time told, a look foretells what an attempt is told
\* (auth-throttle.ts:138), and a key that refuses in Redis expires whoever died
\* (api-rate-limit.ts:169).
THEOREM RefusalsAlwaysEnd == ComponentsSpec => RefusalsEnd
BY ThrottleBehaves, ThrottleSafe, PTL DEF RefusalsEnd

\* Of any tables of routes and gates that agree as HandlerTables says - as those
\* of ApiRoutes do, TLC evaluates it -, whoever loses a role, a session or a key
\* at whatever moment, and however often a request is repeated after an error or
\* a lost answer, nothing is changed but for a caller who held what is declared
\* when the handler asked, and who holds it is not turned away for lack of it
\* (api-rbac-matrix.ts, openapi-registry.ts).
THEOREM EffectsStayDeclared == ComponentsSpec => []EffectsAsDeclared
<1>1. ComponentsInit => RequestsHold
    BY HandlersInitial DEF ComponentsInit, RequestsHold
<1>2. RequestsHold => EffectsAsDeclared
    BY HandlersSafe DEF RequestsHold, EffectsAsDeclared
<1> QED BY <1>1, <1>2, RequestsStep, PTL DEF ComponentsSpec

\* Likewise an error leaves nothing behind but at the places that can fail once
\* a change of theirs stands, and there no more than is said of them; and a
\* mutation of the public API takes effect once however often it is repeated
\* (resource-mutations.ts:61; invites/accept/route.ts:76 for the accepted
\* invitation whose session cannot be opened).
THEOREM ErrorsAlwaysLeaveNothing == ComponentsSpec => []ErrorsLeaveNothing
<1>1. ComponentsInit => RequestsHold
    BY HandlersInitial DEF ComponentsInit, RequestsHold
<1>2. RequestsHold => ErrorsLeaveNothing
    BY HandlersSafe DEF RequestsHold, ErrorsLeaveNothing
<1> QED BY <1>1, <1>2, RequestsStep, PTL DEF ComponentsSpec

\* A walk of any collection, of pages of any size, gives no row twice and every
\* row that was listed all the while, whatever the number of rows that share a
\* time and whatever comes, goes and returns between two pages
\* (public-api/pagination.ts, delivery-attempt-review.ts).
THEOREM WalksAreComplete == ComponentsSpec => []WalkIsComplete
<1>1. ComponentsInit => WalksHold
    BY PagesInitial DEF ComponentsInit, WalksHold
<1>2. WalksHold => WalkIsComplete
    BY PagesSafe DEF WalksHold, WalkIsComplete
<1> QED BY <1>1, <1>2, WalksStep, PTL DEF ComponentsSpec

\* Tenants stay apart on a shared pool (lib/db/tenant-context.ts): with the
\* posture required, every statement reads the organization its own call asked
\* for and no other, for any number of tasks and connections and any nesting.
THEOREM TenantsStayApart == ComponentsSpec => []TenantsApart
<1>1. ComponentsInit => TenantsHold
    BY InitHolds DEF ComponentsInit, TenantsHold
<1>2. TenantsHold => TenantsApart
    BY TInvIsEnough DEF TenantsHold, TenantsApart
<1> QED BY <1>1, <1>2, TenantsStep, PTL DEF ComponentsSpec

\* In every environment of every set the operator may choose from, and whatever
\* changes between accepting and sending, no message leaves for a phone that
\* was written for the demo organization or by a visitor of the demo
\* (outbox/worker.ts:387 and :403, runtime-config.ts:324).
THEOREM DemoNeverLeaves == ComponentsSpec => []OnlyAsConfigured
<1>1. Settings!Init => DInv
    BY KnownEnvironments DEF Settings!Init, DInv, LetterAsConfigured
<1>2. ComponentsInit => SettingsHold
    BY <1>1 DEF ComponentsInit, SettingsHold
<1>3. DInv => Settings!OnlyAsConfigured
    BY WorkersApart, ProductionGateHolds
       DEF DInv, LetterAsConfigured, Settings!OnlyAsConfigured
<1>4. SettingsHold => OnlyAsConfigured
    BY <1>3 DEF SettingsHold, OnlyAsConfigured
<1> QED BY <1>2, <1>4, SettingsStep, PTL DEF ComponentsSpec
=============================================================================
