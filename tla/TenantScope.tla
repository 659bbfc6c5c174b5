----------------------------- MODULE TenantScope -----------------------------
(* The company a caller may see and change: get_company_scope, and the two  *)
(* rules of app/core/tenant.py.  No company (None) stands for all of them.  *)
CONSTANT None

\* resolve_company_filter refuses a charger's request for another company.
FilterAllowed(scope, requested) == scope = None \/ requested \in {None, scope}

\* Mutant: the company asked for replaces the caller's own.
resolve_company_filter_Asked(scope, requested) == requested

\* The filter of a listing: what was asked for, or the caller's company.
resolve_company_filter(scope, requested) == IF scope = None THEN requested ELSE scope

\* Mutant: a charger passes whatever the row's company is.
assert_company_Any(scope, company) == TRUE

\* The guard of every access to a single row.
assert_company(scope, company) == scope = None \/ company = scope

=============================================================================
