--------------------------- MODULE EventClassifier ---------------------------
(***************************************************************************)
(* collector/event_classifier.py: is an event operational, and how severe. *)
(* Patterns match regardless of case, so a service is one of the names in  *)
(* the source's spelling; an event type code or a description is the set   *)
(* of the known words it contains and "other" for the rest of its text, so *)
(* {} is an empty text, which no pattern matches, not even ".*".           *)
(***************************************************************************)
EXTENDS Naturals, Sequences

DataServices == {"RDS", "Aurora", "DynamoDB", "S3", "EBS", "EFS", "FSx", "ElastiCache", "MemoryDB"}
ComputeServices == {"EC2", "ECS", "Lambda", "Fargate", "EKS"}
NetworkServices == {"ELB", "ALB", "NLB", "VPC", "CloudFront", "Route 53", "API Gateway"}

\* Mutant: a service of the severity rules is missing.
MutantOperationalServices == {"EC2", "ECS", "Lambda", "Fargate", "RDS", "Aurora"}

OperationalServices ==
    {"EC2", "ECS", "Lambda", "Fargate", "RDS", "Aurora", "DynamoDB", "ElastiCache", "MemoryDB",
     "S3", "EBS", "EFS", "FSx", "ELB", "ALB", "NLB", "VPC", "CloudFront", "Route 53",
     "CloudWatch", "CloudWatch Logs", "Auto Scaling", "Application Auto Scaling",
     "CodeBuild", "CodeDeploy", "CodePipeline", "SQS", "SNS", "Kinesis", "MSK",
     "EKS", "EMR", "Glue", "Athena", "Redshift", "OpenSearch", "ElasticSearch Service",
     "API Gateway", "AppSync", "Secrets Manager", "ACM"}

CodeWord == {"OPERATIONAL_ISSUE", "OUTAGE", "DEGRADATION", "CONNECTIVITY", "other"}
Keyword  == {"operational", "data", "storage", "database", "unavailable", "degraded",
             "performance", "failure", "outage", "scaling", "monitoring", "logging",
             "connectivity", "latency", "timeout", "disruption"}

\* A rule's service pattern is a set of names, {} for ".*".
Rule(words, services, statuses, severity) ==
    [words |-> words, services |-> services, statuses |-> statuses, severity |-> severity]

Impact == CodeWord \ {"other"}

SeverityRules ==
    << Rule(Impact, DataServices, {"open"}, "critical"),
       Rule(Impact \ {"CONNECTIVITY"}, ComputeServices, {"open"}, "critical"),
       Rule(Impact, NetworkServices, {"open"}, "critical"),
       Rule(CodeWord, {}, {"open"}, "standard"),
       Rule(CodeWord, {}, {"upcoming", "closed"}, "standard") >>

RuleMatches(rule, code, service, status) ==
    /\ rule.words \cap code # {}
    /\ service # "" /\ (rule.services = {} \/ service \in rule.services)
    /\ status \in rule.statuses

\* Mutant: the last rule that matches wins.
MutantDetermineSeverity(code, service, status) ==
    LET hits == {i \in DOMAIN SeverityRules : RuleMatches(SeverityRules[i], code, service, status)}
    IN  IF hits = {} THEN "standard"
        ELSE SeverityRules[CHOOSE i \in hits : \A j \in hits : j <= i].severity

DetermineSeverity(code, service, status) ==
    LET hits == {i \in DOMAIN SeverityRules : RuleMatches(SeverityRules[i], code, service, status)}
    IN  IF hits = {} THEN "standard"
        ELSE SeverityRules[CHOOSE i \in hits : \A j \in hits : i <= j].severity

IsOperational(service, description) ==
    service \in OperationalServices \/ description \cap Keyword # {}

ClassifyEvent(service, code, status, description) ==
    [operational |-> IsOperational(service, description),
     severity    |-> DetermineSeverity(code, service, status)]

-----------------------------------------------------------------------------
\* The table of SPEC.md section 7, written out on its own: the words of an event type
\* code that make an open event of a service critical.
SpecTable ==
    ({"OPERATIONAL_ISSUE", "OUTAGE", "DEGRADATION", "CONNECTIVITY"}
        \X {"RDS", "Aurora", "DynamoDB", "S3", "EBS", "EFS", "FSx", "ElastiCache", "MemoryDB"})
    \cup ({"OPERATIONAL_ISSUE", "OUTAGE", "DEGRADATION"}
        \X {"EC2", "ECS", "Lambda", "Fargate", "EKS"})
    \cup ({"OPERATIONAL_ISSUE", "OUTAGE", "CONNECTIVITY", "DEGRADATION"}
        \X {"ELB", "ALB", "NLB", "VPC", "CloudFront", "Route 53", "API Gateway"})

CriticalBySpec(service, code, status) ==
    status = "open" /\ \E word \in code : <<word, service>> \in SpecTable
=============================================================================
