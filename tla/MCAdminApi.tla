----------------------------- MODULE MCAdminApi -----------------------------
EXTENDS AdminApi
============================================================================
