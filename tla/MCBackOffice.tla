--------------------------- MODULE MCBackOffice ---------------------------
(***************************************************************************)
(* The back office: accounts, tariff plans and expected days.  Plans and   *)
(* days share the regions and the zones, which quotes and backfills only   *)
(* read, and nothing else: one run explores each of the three while the    *)
(* others rest.  The regions change along with the days; the plans are     *)
(* edited with a region that is known and has a zone.                      *)
(***************************************************************************)
EXTENDS Accounts, TariffBook, SlaBackfill

CONSTANTS u1, e1, n1, n2, w1, s1, r1, r2, reg1, city, k, q1, q2, x1, x2, b1, b2

VARIABLE side     \* the one that moves

MCByName == [r \in Regions |-> 1]
MCRegionInputs == {[active |-> a, names |-> {city}, sortOrder |-> 1] : a \in BOOLEAN}

PlanOf(owner, status, default, bands) ==
  [row |-> [status |-> status, service |-> "std", owner |-> owner,
            isDefault |-> default, priority |-> 0],
   bands |-> {[zone |-> 1, from |-> b[1], to |-> b[2], price |-> b[3]] : b \in bands}]
MCPlanInputs ==
  {PlanOf(Unset, "active", TRUE, {<<0, 2, 5>>}),
   PlanOf(Unset, "active", TRUE, {<<0, 1, 6>>, <<1, 3, 8>>}),
   PlanOf(k, "active", FALSE, {<<1, 3, 3>>}),
   PlanOf(k, "draft", TRUE, {<<0, 3, 4>>})}

OrderTo(service, promised) ==
  [service |-> service, from |-> city, to |-> city, promised |-> promised]
MCOrderInputs == {OrderTo("std", FALSE), OrderTo("express", FALSE), OrderTo("express", TRUE)}
MCLegacy == {<<input>> : input \in MCOrderInputs}

RuleFor(origin, z, days, active) ==
  [service |-> "std", origin |-> origin, destination |-> origin, zone |-> z,
   days |-> days, priority |-> 0, active |-> active]
MCRuleInputs == {RuleFor(reg1, Unset, 1, TRUE), RuleFor(Unset, 1, 2, TRUE)}

backOfficeVars == <<accountsVars, routesVars, tariffVars, slaVars, side>>

BackOfficeInit ==
  /\ AccountsInit /\ RoutesInit /\ TariffsInit /\ SlaInit
  /\ side \in {"accounts", "tariffs", "days"}
  /\ (side # "accounts") => mode = "always"
  /\ region = [r \in Regions |-> [active |-> TRUE, names |-> {city}, sortOrder |-> 1]]
  /\ (side # "days") => /\ zone = [pair \in Regions \X Regions |-> 1]
                        /\ rules = <<>>
                        /\ order[1].input = OrderTo("std", FALSE)

BackOfficeNext ==
  /\ \/ /\ side = "accounts" /\ AccountsNext
        /\ UNCHANGED <<routesVars, tariffVars, slaVars>>
     \/ /\ side = "tariffs" /\ TariffsNext
        /\ UNCHANGED <<accountsVars, routesVars, slaVars>>
     \/ /\ side = "days" /\ DaysNext
        /\ UNCHANGED <<accountsVars, tariffVars>>
  /\ UNCHANGED side

\* Requests and backfills are carried on, cached accounts expire, and where the
\* token is believed, tokens do.  Nobody need log in, edit or run a backfill.
BackOfficeFairness ==
  /\ \A r \in Requests : WF_accountsVars(side = "accounts" /\ RequestStep(r))
  /\ \A u \in Ids : /\ WF_accountsVars(side = "accounts" /\ CacheAges(u))
                    /\ WF_accountsVars(side = "accounts" /\ CacheExpires(u))
  /\ \A t \in Claims :
       WF_accountsVars(side = "accounts" /\ mode = "token_or_cache" /\ TokenExpires(t))
  /\ \A b \in Backfills : WF_slaVars(side = "days" /\ BackfillStep(b))

BackOfficeSpec == BackOfficeInit /\ [][BackOfficeNext]_backOfficeVars /\ BackOfficeFairness

\* The components' types.
TypeOK == AccountsTypeOK /\ RoutesTypeOK /\ TariffsTypeOK /\ SlaTypeOK
=============================================================================
