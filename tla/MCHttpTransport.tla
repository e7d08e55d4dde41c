-------------------------- MODULE MCHttpTransport --------------------------
EXTENDS HttpTransport
=============================================================================
