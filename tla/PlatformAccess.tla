------------------------------ MODULE PlatformAccess ------------------------------
(* Who may do what in the platform's hierarchy (packages/domain/src/            *)
(* access-control.ts, and the assignments of AuthService): roles carry           *)
(* permissions, assignments give a user a role within the world, a region, a     *)
(* continent, a country or a tenant.  Every definition is a pure function.       *)
EXTENDS Integers, Sequences, SequencesExt

CONSTANTS
    Continents,
    continentCode,        \* the continent of each country that is supported
    operationalRegions,   \* sequence of [code, continentCodes], in the code's order
    None

(* The absent code is no code.                                                   *)
ASSUME GeographyAssumption ==
    /\ \A country \in DOMAIN continentCode : continentCode[country] \in Continents
    /\ operationalRegions \in Seq(ToSet(operationalRegions))
    /\ \A region \in ToSet(operationalRegions) : region.continentCodes \subseteq Continents
    /\ None \notin Continents \cup DOMAIN continentCode

globalAccessRoles == {"SUPER_ADMIN", "GLOBAL_OPERATIONS_ADMIN", "GLOBAL_FINANCE_ADMIN",
                      "GLOBAL_ANALYTICS_VIEWER", "GLOBAL_MODERATOR_LEAD"}
regionalAccessRoles == {"REGIONAL_ADMIN", "CONTINENTAL_ADMIN", "COUNTRY_ADMIN",
                        "COUNTRY_FINANCE_ADMIN", "COUNTRY_MODERATOR", "COUNTRY_SUPPORT_AGENT",
                        "COUNTRY_SALES_ACCOUNT_MANAGER"}
tenantAccessRoles == {"OWNER", "ADMIN", "EDITOR", "SALES_CHAT_AGENT", "BILLING_MANAGER",
                      "ANALYTICS_VIEWER", "READ_ONLY_VIEWER"}
accessRoles == globalAccessRoles \cup regionalAccessRoles \cup tenantAccessRoles
accessPermissions == {"MANAGE_PLATFORM", "MANAGE_ACCESS", "VIEW_ANALYTICS", "MANAGE_FINANCE",
    "MODERATE_CONTENT", "MANAGE_COUNTRY", "MANAGE_TENANT", "EDIT_PROFILE", "MANAGE_LISTINGS",
    "MANAGE_LEADS", "CHAT_WITH_LEADS", "VIEW_BILLING", "VIEW_TENANT"}

Administration == {"VIEW_ANALYTICS", "MODERATE_CONTENT", "MANAGE_COUNTRY", "MANAGE_TENANT",
                   "VIEW_TENANT"}
Trade == {"EDIT_PROFILE", "MANAGE_LISTINGS", "MANAGE_LEADS", "CHAT_WITH_LEADS", "VIEW_BILLING"}

permissionsByRole(role) ==
    CASE role = "SUPER_ADMIN" -> accessPermissions
      [] role = "GLOBAL_OPERATIONS_ADMIN" ->
            Administration \cup {"MANAGE_PLATFORM", "MANAGE_ACCESS"}
      [] role \in {"GLOBAL_FINANCE_ADMIN", "COUNTRY_FINANCE_ADMIN"} ->
            {"VIEW_ANALYTICS", "MANAGE_FINANCE", "VIEW_BILLING", "VIEW_TENANT"}
      [] role = "GLOBAL_ANALYTICS_VIEWER" -> {"VIEW_ANALYTICS"}
      [] role \in {"GLOBAL_MODERATOR_LEAD", "COUNTRY_MODERATOR"} ->
            {"VIEW_ANALYTICS", "MODERATE_CONTENT", "VIEW_TENANT"}
      [] role \in {"REGIONAL_ADMIN", "CONTINENTAL_ADMIN", "COUNTRY_ADMIN"} -> Administration
      [] role \in {"COUNTRY_SUPPORT_AGENT", "COUNTRY_SALES_ACCOUNT_MANAGER"} ->
            {"VIEW_ANALYTICS", "VIEW_TENANT", "MANAGE_LEADS", "CHAT_WITH_LEADS"}
      [] role = "OWNER" ->
            Trade \cup {"MANAGE_ACCESS", "VIEW_ANALYTICS", "MANAGE_TENANT", "VIEW_TENANT"}
      [] role = "ADMIN" -> Trade \cup {"VIEW_ANALYTICS", "MANAGE_TENANT", "VIEW_TENANT"}
      [] role = "EDITOR" -> {"EDIT_PROFILE", "MANAGE_LISTINGS", "VIEW_TENANT"}
      [] role = "SALES_CHAT_AGENT" -> {"MANAGE_LEADS", "CHAT_WITH_LEADS", "VIEW_TENANT"}
      [] role = "BILLING_MANAGER" -> {"VIEW_BILLING", "VIEW_TENANT"}
      [] role = "ANALYTICS_VIEWER" -> {"VIEW_ANALYTICS", "VIEW_TENANT"}
      [] role = "READ_ONLY_VIEWER" -> {"VIEW_TENANT"}

requiresMfa(role) ==
    role \in globalAccessRoles \cup
             (regionalAccessRoles \ {"COUNTRY_SUPPORT_AGENT", "COUNTRY_SALES_ACCOUNT_MANAGER"})
             \cup {"OWNER", "ADMIN", "BILLING_MANAGER"}

(* What a request is about; a field that is absent is None.                      *)
Resource(tenant, country, continent, region) ==
    [tenant |-> tenant, country |-> country, continent |-> continent, region |-> region]

(* The continent follows from the country and the region from either, if they    *)
(* are not given.                                                                *)
normalizeResourceScope(resource) ==
    LET home == IF resource.country \in DOMAIN continentCode THEN continentCode[resource.country] ELSE None
        continent == IF resource.continent # None THEN resource.continent ELSE home
        i == SelectInSeq(operationalRegions,
                         LAMBDA g : {home, continent} \cap g.continentCodes # {})
        region == IF resource.region # None THEN resource.region
                  ELSE IF i = 0 THEN None ELSE operationalRegions[i].code
    IN  [resource EXCEPT !.continent = continent, !.region = region]

(* An assignment's code is that of its level.                                    *)
scopeMatches(assignment, resource) ==
    LET code == CASE assignment.level = "REGIONAL" -> resource.region
                  [] assignment.level = "CONTINENT" -> resource.continent
                  [] assignment.level = "COUNTRY" -> resource.country
                  [] OTHER -> resource.tenant
    IN  assignment.level = "GLOBAL" \/ (code # None /\ code = assignment.code)

(* Mutant: an assignment of any level will do for a resource it is not about.    *)
evaluateAccessMutant(assignment, mfaVerified, permission, resource) ==
    IF permission \notin permissionsByRole(assignment.role) THEN "ROLE_PERMISSION_DENIED"
    ELSE IF requiresMfa(assignment.role) /\ ~mfaVerified THEN "MFA_REQUIRED"
    ELSE "ACCESS_GRANTED"

(* UNKNOWN_COUNTRY is never answered: normalising keeps the code of a country    *)
(* that is not known, and the check looks for one that went missing.             *)
evaluateAccess(assignment, mfaVerified, permission, resource) ==
    LET unknown == \A i \in DOMAIN operationalRegions : operationalRegions[i].code # resource.region
    IN  IF resource.region # None /\ unknown THEN "UNKNOWN_REGION"
        ELSE IF permission \notin permissionsByRole(assignment.role) THEN "ROLE_PERMISSION_DENIED"
        ELSE IF requiresMfa(assignment.role) /\ ~mfaVerified THEN "MFA_REQUIRED"
        ELSE IF ~scopeMatches(assignment, normalizeResourceScope(resource)) THEN "SCOPE_MISMATCH"
        ELSE "ACCESS_GRANTED"

(* checkPlatformSession: the assignments that a session goes on with, as their   *)
(* positions, and whether it is let through at all.                              *)
isActiveAccessAssignment(assignment) == ~assignment.revoked /\ ~assignment.expired

platformAssignments(assignments, permission) ==
    {i \in DOMAIN assignments : /\ isActiveAccessAssignment(assignments[i])
                                /\ permission \in permissionsByRole(assignments[i].role)}

checkPlatformSession(assignments, mfaVerified, permission) ==
    LET held == platformAssignments(assignments, permission)
    IN  /\ held # {}
        /\ \/ mfaVerified
           \/ \A i \in held : ~assignments[i].mfaRequired /\ ~requiresMfa(assignments[i].role)

(* evaluatePlatformAccess: the first assignment that grants, else what the first *)
(* one says.                                                                     *)
evaluatePlatformAccess(assignments, mfaVerified, permission, resource) ==
    LET held == platformAssignments(assignments, permission)
        decision(i) == evaluateAccess(assignments[i], mfaVerified, permission, resource)
    IN  CASE held = {} -> "ROLE_PERMISSION_DENIED"
          [] \E i \in held : decision(i) = "ACCESS_GRANTED" -> "ACCESS_GRANTED"
          [] OTHER -> decision(Min(held))

(* The guard of the platform's routes, then requirePlatformAccess.               *)
MayAccess(assignments, mfaVerified, permission, resource) ==
    /\ checkPlatformSession(assignments, mfaVerified, permission)
    /\ evaluatePlatformAccess(assignments, mfaVerified, permission, resource) = "ACCESS_GRANTED"
==================================================================================
