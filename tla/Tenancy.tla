------------------------------- MODULE Tenancy -------------------------------
(***************************************************************************)
(* Tenants, their BookSets, charts of accounts and PAN profiles            *)
(* (tenant-command-service, tenant-service, bookset-command-service,       *)
(* tenant-pan-service and the repositories), under the constraints and     *)
(* triggers of the schema, and the two migrations that brought a database  *)
(* of the first format to them (bookset-v3- and bookset-v4-migration).     *)
(* Each action is one write session, rolled back as a whole when a check,  *)
(* a constraint or a trigger refuses it.  An id is fresh, so it is the     *)
(* position of its row.  Replays under (tenant, request id) are in         *)
(* PeriodLedger; here are those of the creation of a tenant.               *)
(***************************************************************************)
EXTENDS Naturals, Sequences, FiniteSets

CONSTANTS
  Names, NoCase(_),    \* display names as trimmed, and what COLLATE NOCASE compares of one
  SeedName(_),         \* the name given to a BookSet of each kind that is not named by a command
  Codes, SeedCodes,    \* account codes, and those of the chart every tenant.create seeds
  Pans, Requests,      \* PANs; request ids of tenant creations
  MaxTenants, MaxBookSets   \* bounds

TenantKinds == {"COMPANY", "INDIVIDUAL"}
BookSetKinds == {"COMPANY", "PERSONAL", "PROPRIETORSHIP"}

ASSUME TenancyAssumption ==
  /\ MaxTenants \in Nat /\ MaxBookSets \in Nat
  /\ SeedCodes \subseteq Codes
  /\ \A k \in BookSetKinds : SeedName(k) \in Names
  /\ \A k, l \in BookSetKinds : NoCase(SeedName(k)) = NoCase(SeedName(l)) => k = l

VARIABLES
  rules,      \* format of the database: "v2" or, once migrated, "v3"
  tenants,    \* rows in the order of their ids: [kind, lifecycle, default]
  bookSets,   \* rows: [tenant, kind, name, lifecycle]
  accounts,   \* rows: [bookSet, code, archived]
  pans,       \* PAN profile of each tenant that has one
  creations   \* finalized creation requests: request id |-> [hash, tenant]

tenancyVars == <<rules, tenants, bookSets, accounts, pans, creations>>

NoBookSet == 0
Unnamed == "unnamed"

-----------------------------------------------------------------------------
(* What the schema lets in.                                                *)

OwnBooks(t) == {b \in DOMAIN bookSets : bookSets[b].tenant = t}

\* A table of BookSets may not hold two of these: the partial unique indexes count archived ones too.
MayCoexist(a, b) ==
  a.tenant = b.tenant =>
    /\ a.kind = b.kind => a.kind = "PROPRIETORSHIP"
    /\ NoCase(a.name) # NoCase(b.name)

\* The triggers on tenants: a default is an ACTIVE BookSet of the tenant, and an ACTIVE tenant has one.
AcceptedTenant(t, row, table) ==
  /\ row.lifecycle = "ACTIVE" => row.default # NoBookSet
  /\ row.default # NoBookSet => table[row.default].tenant = t /\ table[row.default].lifecycle = "ACTIVE"

\* Mutant: only what is there is looked at, not what is missing.
NullDefaultAccepted(t, row, table) ==
  row.default # NoBookSet => table[row.default].tenant = t /\ table[row.default].lifecycle = "ACTIVE"

\* The trigger that the migration fires once for every tenant it finds, with `UPDATE tenants SET id = id`.
ExistingTenantAccepted(t, row, table) == AcceptedTenant(t, row, table)

\* A database of the old format: one BookSet of a kind for each tenant, the
\* default one of the tenant's, and nothing said of lifecycles.
OldTenants == [kind : TenantKinds, lifecycle : {"CREATING", "ACTIVE", "ARCHIVED"}, default : 0 .. MaxBookSets]
OldBookSets == [tenant : 1 .. MaxTenants, kind : BookSetKinds, name : {Unnamed}, lifecycle : {"ACTIVE", "ARCHIVED"}]
MayHold(tenantKind, bookSetKind) == (tenantKind = "COMPANY") <=> (bookSetKind = "COMPANY")

Old(t, table) ==
  /\ Len(t) < MaxTenants
  /\ \A b \in DOMAIN table : table[b].tenant \in DOMAIN t /\ MayHold(t[table[b].tenant].kind, table[b].kind)
  /\ \A a, b \in DOMAIN table : a # b => table[a].tenant # table[b].tenant \/ table[a].kind # table[b].kind
  /\ \A i \in DOMAIN t : t[i].default # NoBookSet => t[i].default \in DOMAIN table /\ table[t[i].default].tenant = i

TenancyInit ==
  /\ \/ rules = "v3" /\ tenants = <<>> /\ bookSets = <<>>
     \/ /\ rules = "v2"
        /\ \E n \in 1 .. MaxTenants, m \in 0 .. MaxBookSets - 1 :
             \E t \in [1 .. n -> OldTenants], table \in [1 .. m -> OldBookSets] :
               Old(t, table) /\ tenants = t /\ bookSets = table
  /\ accounts = <<>>
  /\ pans = <<>>
  /\ creations = <<>>

\* The rebuild names each BookSet after its kind and then has every tenant
\* pass the new trigger; one that does not aborts it, and nothing changed.
Migrate ==
  LET named == [b \in DOMAIN bookSets |-> [bookSets[b] EXCEPT !.name = SeedName(bookSets[b].kind)]]
  IN /\ rules = "v2"
     /\ \A t \in DOMAIN tenants : ExistingTenantAccepted(t, tenants[t], named)
     /\ \A a, b \in DOMAIN named : a # b => MayCoexist(named[a], named[b])
     /\ rules' = "v3"
     /\ bookSets' = named
     /\ UNCHANGED <<tenants, accounts, pans, creations>>

-----------------------------------------------------------------------------
(* Tenants.                                                                *)

\* One transaction: the tenant with no default, its BookSet, the default and,
\* through the command, the seed accounts; TenantService seeds none.  A
\* request id seen before replays its tenant or is refused.
TenantCreate(request, kind, seeds) ==
  LET t == Len(tenants) + 1
      b == Len(bookSets) + 1
      bookSetKind == IF kind = "COMPANY" THEN "COMPANY" ELSE "PERSONAL"
      chart == [i \in 1 .. Cardinality(seeds) |->
        [bookSet |-> b, code |-> CHOOSE c \in seeds : Cardinality({d \in seeds : d < c}) = i - 1, archived |-> FALSE]]
  IN /\ rules = "v3"
     /\ request \notin DOMAIN creations
     /\ t <= MaxTenants /\ b <= MaxBookSets
     /\ tenants' = Append(tenants, [kind |-> kind, lifecycle |-> "CREATING", default |-> b])
     /\ bookSets' = Append(bookSets, [tenant |-> t, kind |-> bookSetKind, name |-> SeedName(bookSetKind), lifecycle |-> "ACTIVE"])
     /\ accounts' = accounts \o chart
     /\ creations' = [r \in DOMAIN creations \cup {request} |-> IF r = request THEN [kind |-> kind, tenant |-> t] ELSE creations[r]]
     /\ UNCHANGED <<rules, pans>>

\* The tables of tenants after one of them changed, if the triggers accept it.
UpdateTenant(t, row) ==
  /\ AcceptedTenant(t, row, bookSets)
  /\ tenants' = [tenants EXCEPT ![t] = row]
  /\ UNCHANGED <<rules, bookSets, accounts, pans, creations>>

\* The command asserts the default it expects, the service reads the one there is.
TenantActivate(t, asserted) ==
  /\ rules = "v3"
  /\ tenants[t].lifecycle = "CREATING"
  /\ tenants[t].default = asserted
  /\ UpdateTenant(t, [tenants[t] EXCEPT !.lifecycle = "ACTIVE"])

\* SqliteTenantRepository.archive asks that the default is not ACTIVE and the
\* trigger that it is: with a default, which nothing takes away, no tenant passes.
TenantArchive(t) ==
  /\ rules = "v3"
  /\ tenants[t].default # NoBookSet => bookSets[tenants[t].default].lifecycle # "ACTIVE"
  /\ UpdateTenant(t, [tenants[t] EXCEPT !.lifecycle = "ARCHIVED"])

-----------------------------------------------------------------------------
(* BookSets.  A tenant in any lifecycle may be given one.                  *)

BookSetCreate(t, kind, name) ==
  LET row == [tenant |-> t, kind |-> kind, name |-> name, lifecycle |-> "ACTIVE"]
  IN /\ rules = "v3"
     /\ Len(bookSets) < MaxBookSets
     /\ MayHold(tenants[t].kind, kind)
     /\ \A b \in DOMAIN bookSets : MayCoexist(bookSets[b], row)
     /\ bookSets' = Append(bookSets, row)
     /\ UNCHANGED <<rules, tenants, accounts, pans, creations>>

BookSetSetDefault(t, b) ==
  /\ rules = "v3"
  /\ b \in OwnBooks(t)
  /\ bookSets[b].lifecycle = "ACTIVE"
  /\ UpdateTenant(t, [tenants[t] EXCEPT !.default = b])

\* Both the repository and the trigger keep the current default.
MayBeArchived(t, b) == tenants[t].default # b /\ \A u \in DOMAIN tenants : tenants[u].default # b

BookSetArchive(t, b) ==
  /\ rules = "v3"
  /\ b \in OwnBooks(t)
  /\ MayBeArchived(t, b)
  /\ bookSets' = [bookSets EXCEPT ![b].lifecycle = "ARCHIVED"]
  /\ UNCHANGED <<rules, tenants, accounts, pans, creations>>

-----------------------------------------------------------------------------
(* Accounts and PAN profiles.                                              *)

\* A code stays taken when its account is archived.
CodesOf(b) == {accounts[i].code : i \in {j \in DOMAIN accounts : accounts[j].bookSet = b}}

AccountCreate(b, code) ==
  /\ rules = "v3"
  /\ bookSets[b].lifecycle = "ACTIVE"
  /\ code \notin CodesOf(b)
  /\ accounts' = Append(accounts, [bookSet |-> b, code |-> code, archived |-> FALSE])
  /\ UNCHANGED <<rules, tenants, bookSets, pans, creations>>

AccountArchive(i) ==
  /\ rules = "v3"
  /\ accounts' = [accounts EXCEPT ![i].archived = TRUE]
  /\ UNCHANGED <<rules, tenants, bookSets, pans, creations>>

\* A first PAN, or one that replaces the PAN whose hash the caller names; no other tenant may hold it.
TenantPanSet(t, pan, expected) ==
  /\ rules = "v3"
  /\ t \in DOMAIN pans => pans[t] \in {expected, pan}
  /\ \A u \in DOMAIN pans : pans[u] = pan => u = t
  /\ pans' = [u \in DOMAIN pans \cup {t} |-> IF u = t THEN pan ELSE pans[u]]
  /\ UNCHANGED <<rules, tenants, bookSets, accounts, creations>>

-----------------------------------------------------------------------------
TenancyNext ==
  \/ Migrate
  \/ \E r \in Requests, k \in TenantKinds, seeds \in {{}, SeedCodes} : TenantCreate(r, k, seeds)
  \/ \E t \in DOMAIN tenants :
       \/ \E asserted \in DOMAIN bookSets : TenantActivate(t, asserted)
       \/ TenantArchive(t)
       \/ \E k \in BookSetKinds, name \in Names : BookSetCreate(t, k, name)
       \/ \E b \in DOMAIN bookSets : BookSetSetDefault(t, b) \/ BookSetArchive(t, b)
       \/ \E pan, expected \in Pans : TenantPanSet(t, pan, expected)
  \/ \E b \in DOMAIN bookSets, c \in Codes : AccountCreate(b, c)
  \/ \E i \in DOMAIN accounts : AccountArchive(i)

TenancySpec == TenancyInit /\ [][TenancyNext]_tenancyVars

-----------------------------------------------------------------------------
(* Whatever the old format let in and whatever was created, made default   *)
(* and archived since, a tenant that is served has books to be served      *)
(* from: a default BookSet of its own that is ACTIVE, of a kind its tenant *)
(* may hold, one COMPANY or PERSONAL BookSet at most and no two names that  *)
(* differ only in case.  book-set.default, every command that falls back   *)
(* on the default and the tax case that looks for the PERSONAL one rely on *)
(* it.                                                                     *)
ServedTenantsHaveTheirBooks ==
  rules = "v3" =>
    \A t \in DOMAIN tenants :
      /\ tenants[t].lifecycle = "ACTIVE" => tenants[t].default # NoBookSet
      /\ tenants[t].default # NoBookSet =>
           tenants[t].default \in OwnBooks(t) /\ bookSets[tenants[t].default].lifecycle = "ACTIVE"
      /\ \A b \in OwnBooks(t) : MayHold(tenants[t].kind, bookSets[b].kind)
      /\ \A a, b \in OwnBooks(t) : a # b =>
           /\ bookSets[a].kind = bookSets[b].kind => bookSets[a].kind = "PROPRIETORSHIP"
           /\ NoCase(bookSets[a].name) # NoCase(bookSets[b].name)
=============================================================================
