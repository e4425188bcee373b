---- MODULE MCNotifications ----
\* Notifications for TLC: two owners, three events, a stream that shows two of
\* them at a time, a ring of two, one lost connection or response.
EXTENDS Notifications
====
