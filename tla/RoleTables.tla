----------------------------- MODULE RoleTables -----------------------------
(* What each data migration of the CMMS says: the roles and their permissions *)
(* (src/backend/*/migrations).  A migration that creates no model a role is   *)
(* granted anything on, and runs no code, is left out: what depends on it     *)
(* depends on what it depends on.                                             *)
EXTENDS Integers, FiniteSets, TLC

All == {"add", "change", "delete", "view"}
Edit == {"add", "change", "view"}
Log == {"add", "view"}
View == {"view"}

Give(roles, actions, models) == roles \X actions \X models
ViewTo(roles, models) == Give(roles, View, models)

(* Models that every migration treats alike are one here: master data stands *)
(* for sites, terminals, customers, customer sites, contracts and assets; a  *)
(* version for versions, their items and their assignments; and so on.       *)
MasterData == {"masterdata"}
Catalog == {"item and spare part"}
Configuration == {"configurationtemplate", "configurationversion"}
AssetModels == MasterData \cup Catalog \cup Configuration
OrderModels == {"failurecode", "workorder", "workorderstatuschange", "labor and parts"}
ScheduleModels == {"pmschedule", "pmschedulegeneration"}
StockModels == {"stocklevel", "stockreservation"}
PurchaseModels == {"purchaseorder"}
TeamModels == {"team", "shift", "shifthandovernote"}
SafetyModels == {"permit and incident"}
ChecklistModels == {"checklist"}

Crew == {"Lead Technician", "Technician"}
Handlers == {"Admin", "Incident Manager"} \cup Crew
Onlookers == {"Management", "Asset Manager", "Spare Parts Manager", "OEM"}
FirstRoles == (Handlers \cup Onlookers) \ {"Asset Manager", "OEM"}
Roles == Handlers \cup Onlookers

(* A migration that founds nothing, grants nothing and so on. *)
Plain(needs) == [needs |-> needs, creates |-> {}, founds |-> {}, grants |-> {},
                 revokes |-> {}, strips |-> {}, seeds |-> {}]
Creating(needs, models) == [Plain(needs) EXCEPT !.creates = models]

(* The common shape: grants to groups that may be missing, and the models    *)
(* whose permissions the way back takes from every group.                    *)
Granting(needs, grants, strips) ==
    [Plain(needs) EXCEPT !.grants = grants, !.strips = strips]
Founding(needs, roles, grants) ==
    [Plain(needs) EXCEPT !.founds = roles, !.grants = grants]
Seeding(needs, name) == [Plain(needs) EXCEPT !.seeds = {name}]

-----------------------------------------------------------------------------
(* core *)

ReadOnlyAdmin == {"configurationversion"}

core_0001 == Founding({"assets.0001", "workorders.0002"}, FirstRoles,
    ViewTo(FirstRoles, AssetModels \cup OrderModels)
    \cup Give({"Admin"}, All, (AssetModels \ ReadOnlyAdmin) \cup {"user", "group"})
    \cup Give({"Admin"}, Log, ReadOnlyAdmin)
    \cup Give({"Admin"}, All, OrderModels \ {"workorderstatuschange"})
    \cup Give({"Incident Manager"}, Edit, {"failurecode", "workorder"})
    \cup Give(Crew, Edit, {"workorder"})
    \cup Give(Crew, Log, {"labor and parts"})
    \cup Give({"Lead Technician"}, Log, {"failurecode"})
    \cup Give({"Lead Technician"}, Edit, {"labor and parts"})
    \cup Give({"Spare Parts Manager"}, All, Catalog))

core_0002 == [Founding({"core.0001"}, {"Asset Manager"},
        Give({"Asset Manager"}, All, MasterData)
        \cup ViewTo({"Asset Manager"}, AssetModels \cup OrderModels))
    EXCEPT !.revokes = Give({"Admin"}, All \ View, {"configurationtemplate"})
                       \cup Give({"Admin"}, {"add"}, ReadOnlyAdmin)]

core_0003 == Granting({"core.0002", "maintenance.0001"},
    ViewTo(Roles \ {"OEM"}, ScheduleModels)
    \cup Give({"Admin"}, All, {"pmschedule"})
    \cup Give({"Incident Manager"}, Edit, {"pmschedule"}), ScheduleModels)

core_0004 == Granting({"core.0003", "inventory.0001"},
    ViewTo(Roles \ {"OEM"}, StockModels)
    \cup Give({"Admin", "Spare Parts Manager"}, All, {"stocklevel"})
    \cup Give({"Admin"}, All, {"stockreservation"})
    \cup Give({"Spare Parts Manager"}, Edit, {"stockreservation"})
    \cup Give({"Lead Technician"}, Log, {"stockreservation"}),
    StockModels \cup PurchaseModels)

core_0005 == Founding({"core.0004"}, {"OEM"},
    ViewTo({"OEM"}, AssetModels \cup OrderModels \cup ScheduleModels \cup StockModels))

core_0006 == Granting({"core.0005", "teams.0001"},
    ViewTo(Roles, TeamModels)
    \cup Give({"Admin"}, All, {"team", "shift"})
    \cup Give({"Incident Manager"}, Edit, {"team", "shift"})
    \cup Give({"Lead Technician"}, Edit, {"shift"})
    \cup Give(Handlers, Log, {"shifthandovernote"}), TeamModels \cup {"certification"})

core_0007 == Granting({"core.0006", "safety.0001"},
    ViewTo(Roles, SafetyModels)
    \cup Give({"Admin"}, All, SafetyModels)
    \cup Give(Handlers, Edit, SafetyModels), SafetyModels \cup {"approval"})

core_0008 == Granting({"core.0007", "assets.0007"},
    ViewTo(Roles, {"customercontact"})
    \cup Give({"Admin", "Asset Manager"}, All, {"customercontact"}), {"customercontact"})

core_0009 == Creating({"core.0008"}, {"attachment"})

core_0010 == Granting({"core.0009"},
    ViewTo(Roles, {"attachment"})
    \cup Give({"Admin", "Incident Manager"}, All, {"attachment"})
    \cup Give(Crew, Log, {"attachment"}), {"attachment"})

core_0011 == Seeding({"core.0010"}, "Send daily SLA/stock notification digest")
core_0012 == Creating({"core.0011"}, ChecklistModels)

core_0013 == Granting({"core.0012"},
    ViewTo(Roles, ChecklistModels)
    \cup Give({"Admin", "Asset Manager"}, All, ChecklistModels), ChecklistModels)

-----------------------------------------------------------------------------
(* The other apps *)

assets_0001 == Creating({}, AssetModels)
assets_0007 == Creating({"assets.0001"}, {"customercontact"})
assets_0008 == Creating({"assets.0007"}, {"assetmeterreading"})

assets_0009 == Granting({"assets.0008"},
    ViewTo(Roles, {"assetmeterreading"})
    \cup Give({"Admin"} \cup Crew, Log, {"assetmeterreading"}), {"assetmeterreading"})

assets_0010 == Creating({"assets.0009"}, {"vendor"})

assets_0011 == Granting({"assets.0010"},
    ViewTo(Roles, {"vendor"})
    \cup Give({"Admin", "Spare Parts Manager"}, All, {"vendor"}), {"vendor"})

workorders_0002 == Creating({"assets.0001"}, OrderModels)
workorders_0006 == Creating({"workorders.0002", "inventory.0001", "teams.0001"},
                            {"workordercomment"})

workorders_0007 == Granting({"workorders.0006"},
    ViewTo(Roles, {"workordercomment"})
    \cup Give(Handlers, Log, {"workordercomment"}), {"workordercomment"})

workorders_0008 == Creating({"workorders.0007", "core.0013"}, {"workorderchecklistresponse"})

workorders_0009 == Granting({"workorders.0008"},
    ViewTo(Roles, {"workorderchecklistresponse"})
    \cup Give(Handlers, Log, {"workorderchecklistresponse"}), {"workorderchecklistresponse"})

inventory_0001 == Creating({"assets.0001", "workorders.0002"}, StockModels)
inventory_0002 == Creating({"assets.0010", "inventory.0001"}, PurchaseModels)

inventory_0003 == Granting({"inventory.0002"},
    ViewTo(Roles, PurchaseModels)
    \cup Give({"Admin", "Spare Parts Manager"}, All, PurchaseModels), PurchaseModels)

maintenance_0001 == Creating({"assets.0001", "workorders.0002"}, ScheduleModels)
maintenance_0002 == Seeding({"maintenance.0001"}, "Generate due PM work orders")

teams_0001 == Creating({"assets.0001"}, TeamModels)
teams_0002 == Creating({"teams.0001"}, {"certification"})

teams_0003 == Granting({"teams.0002"},
    ViewTo(Roles, {"certification"})
    \cup Give({"Admin", "Management"}, All, {"certification"}), {"certification"})

safety_0001 == Creating({"assets.0001", "workorders.0002", "inventory.0001", "teams.0001"},
                        SafetyModels)
safety_0003 == Creating({"safety.0001", "core.0013"}, {"approval"})

(* can_approve_permittowork, written as the right to change an approval. *)
safety_0004 == Granting({"safety.0003"},
    Give({"Admin", "Management", "Incident Manager"}, {"change"}, {"approval"}), {"approval"})

RoleTable ==
       "core.0001" :> core_0001 @@ "core.0002" :> core_0002
    @@ "core.0003" :> core_0003 @@ "core.0004" :> core_0004
    @@ "core.0005" :> core_0005 @@ "core.0006" :> core_0006
    @@ "core.0007" :> core_0007 @@ "core.0008" :> core_0008
    @@ "core.0009" :> core_0009 @@ "core.0010" :> core_0010
    @@ "core.0011" :> core_0011 @@ "core.0012" :> core_0012
    @@ "core.0013" :> core_0013 @@ "assets.0001" :> assets_0001
    @@ "assets.0007" :> assets_0007 @@ "assets.0008" :> assets_0008
    @@ "assets.0009" :> assets_0009 @@ "assets.0010" :> assets_0010
    @@ "assets.0011" :> assets_0011 @@ "workorders.0002" :> workorders_0002
    @@ "workorders.0006" :> workorders_0006 @@ "workorders.0007" :> workorders_0007
    @@ "workorders.0008" :> workorders_0008 @@ "workorders.0009" :> workorders_0009
    @@ "inventory.0001" :> inventory_0001 @@ "inventory.0002" :> inventory_0002
    @@ "inventory.0003" :> inventory_0003 @@ "maintenance.0001" :> maintenance_0001
    @@ "maintenance.0002" :> maintenance_0002 @@ "teams.0001" :> teams_0001
    @@ "teams.0002" :> teams_0002 @@ "teams.0003" :> teams_0003
    @@ "safety.0001" :> safety_0001 @@ "safety.0003" :> safety_0003
    @@ "safety.0004" :> safety_0004
=============================================================================
