----------------------------- MODULE MCPlatform -----------------------------
(***************************************************************************)
(* The server's smaller parts for TLC: the audit log, the login attempt    *)
(* limiter and the creation of directory accounts.  They share no state: a *)
(* behaviour follows one of them, so that their state spaces add up.       *)
(***************************************************************************)
EXTENDS AuditLog, LoginLimiter, LdapProvision

VARIABLE part

AnyName == CHOOSE name \in UserNames : TRUE
AnyNumber == CHOOSE number \in UidNumbers : TRUE

PlatformInit ==
  /\ part \in {"audit", "limiter", "ldap"}
  /\ AuditInit /\ LimiterInit /\ ProvisionInit
  /\ part # "ldap" => \A c \in Creates : create[c].name = AnyName /\ create[c].number = AnyNumber

PlatformNext ==
  /\ \/ /\ part = "audit" /\ AuditNext
        /\ UNCHANGED <<limiterVars, provisionVars>>
     \/ /\ part = "limiter" /\ LimiterNext
        /\ UNCHANGED <<auditVars, provisionVars>>
     \/ /\ part = "ldap" /\ ProvisionNext
        /\ UNCHANGED <<auditVars, limiterVars>>
  /\ UNCHANGED part

PlatformSpec == PlatformInit /\ [][PlatformNext]_<<auditVars, limiterVars, provisionVars, part>>

(* Every variable keeps its type: no login counter passes its limit, and   *)
(* the slots of the directory stay within their channel.                   *)
PlatformTypeOK == AuditTypeOK /\ LimiterTypeOK /\ ProvisionTypeOK
=============================================================================
