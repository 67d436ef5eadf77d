--------------------------- MODULE ScreensSystem ----------------------------
(***************************************************************************)
(* What the screens of recovery, platforms, settings and team intelligence *)
(* show: each render function of app/bot/screens as the set of keyboards   *)
(* it may answer with. The text of a screen and the figures in it are left *)
(* out; where the keyboard depends on the data (a list that may be empty,  *)
(* a record that may be missing), every case is in the set.                *)
(***************************************************************************)
EXTENDS Menus

-----------------------------------------------------------------------------
(* Recovery                                                                *)
recovery_menu(back_to) ==
    Keys({"recovery:backup:run", "recovery:storage", "recovery:storage:@",
         "recovery:storage:manual", "recovery:history", "recovery:restore:test",
         "recovery:disaster_plan", "recovery:details", "help_from:recovery_center"}, back_to)
render_recovery_center_page(details) ==
    IF details THEN {Keys({"recovery_center", "recovery:history"}, "recovery_center")}
    ELSE {recovery_menu("owner_advanced")}
render_backup_run_page == {recovery_menu("recovery_center")}
render_backup_job_started_page == {recovery_menu("recovery_center")}
render_backup_history_page == {recovery_menu("recovery_center")}
render_restore_test_page == {recovery_menu("recovery_center")}
render_restore_job_started_page == {recovery_menu("recovery_center")}
render_backup_storage_page(target_type) ==
    IF target_type = "none"
    THEN {Keys({"recovery:storage:@", "recovery:storage:manual", "recovery:details"},
         "recovery_center")}
    ELSE IF target_type = "manual" THEN {Keys({"recovery:storage"}, "recovery_center")}
    ELSE {Keys({"recovery:storage:@:activate", "recovery:storage:test:#",
         "recovery:storage:remove:#", "recovery:storage"}, "recovery_center")}
render_disaster_plan_page(details) ==
    IF details THEN {page_menu("recovery:disaster_plan")}
    ELSE {Keys({"recovery:details", "recovery:disaster_plan:details", "recovery:history"},
         "recovery_center")}

-----------------------------------------------------------------------------
(* Platforms                                                               *)
platform_connections_menu ==
    Keys({"platforms:@", "platforms:notifications", "platforms:details",
         "help_copilot:@"}, "owner_advanced")
platform_detail_menu ==
    Keys({"platforms:@:connection", "platforms:@:stats", "platforms:notifications:@",
         "platforms:@:test_website", "platforms:@:details", "help_copilot:@"}, "platforms")
notification_center_menu ==
    Keys({"platforms:notifications:@", "platforms:alert_routing",
         "platforms:alert_health", "platforms:notifications"}, "platforms")
render_platform_connections_page(details) ==
    IF details THEN {Keys({"platforms"}, "platforms")}
    ELSE {platform_connections_menu}
render_platform_detail_page(details) ==
    IF details THEN {Keys({"platforms:@"}, "platforms")}
    ELSE {platform_detail_menu}
render_platform_notification_center_page == {notification_center_menu}
render_platform_notification_detail_page ==
    {Keys({"platforms:alert_routing"}, "platforms:notifications"),
         Keys({"platforms:notifications:@", "platforms:notifications:@:test",
         "notification_routing", "platforms:notifications:@:learn_acted",
         "platforms:notifications:@:learn_ignored", "platforms:notifications:@:details"},
         "platforms:notifications")}
render_alert_routing_center_page ==
    {Keys({"platforms:alert_health", "platforms:alert_routing"},
         "platforms:notifications")}
render_alert_health_page ==
    {Keys({"platforms:alert_health", "platforms:alert_health:details"},
         "platforms:notifications")}

-----------------------------------------------------------------------------
(* Users, roles, settings and observability                                *)
render_users_page == {users_menu({"user:#"})}
render_user_detail_page == {user_detail_menu, page_menu("users")}
render_role_assignment_page(choice) ==
    {role_choice_menu(choice), page_menu("users"), page_menu("user:#")}
render_roles_page == {roles_menu({"role:#"})}
render_role_detail_page == {role_detail_menu, page_menu("roles")}
render_permission_list_page(choice) ==
    {permission_choice_menu(choice), page_menu("roles"), page_menu("role:#")}
render_default_permissions_page == {page_menu("roles")}
audit_logs_markup ==
    Keys({"audit_logs", "audit_logs:details", "audit_logs:issues"}, "settings")
render_audit_logs_page == {audit_logs_markup}
render_chat_cleanup_page(details) ==
    IF details
    THEN {Keys({"settings:chat_cleanup:clean", "settings:chat_cleanup"},
         "settings:chat_cleanup")}
    ELSE {Keys({"settings:chat_cleanup:clean", "settings:chat_cleanup:toggle",
         "settings:chat_cleanup:details"}, "settings")}
render_bot_status_page ==
    {Keys({"bot_status", "bot_status:details", "production_observability"}, "settings")}
observability_summary_markup ==
    Keys({"production_observability", "bot_instance_status",
         "production_observability:details", "recovery_center", "button_health", "integrity"},
         "owner_advanced")
observability_details_markup(back_to) ==
    Keys({back_to, "integrity", "bot_instance_status"}, back_to)
integrity_summary_markup ==
    Keys({"integrity", "integrity:details"}, "production_observability")
integrity_details_markup == Keys({"integrity"}, "production_observability")
render_production_observability_page(details) ==
    IF details THEN {observability_details_markup("production_observability")}
    ELSE {observability_summary_markup}
render_integrity_page(details) ==
    IF details THEN {integrity_details_markup}
    ELSE {integrity_summary_markup}
render_botstatus_page(details) ==
    IF details THEN {observability_details_markup("bot_instance_status")}
    ELSE {Keys({"bot_instance_status", "bot_instance_status:details"},
         "production_observability")}
render_availability_page == {availability_menu}
render_team_availability_page == {page_menu("settings")}
render_notification_targets_page == {notification_targets_menu({"notification_target:#"})}
render_notification_group_setup_page == {notification_group_setup_menu}
render_notification_group_pilot_page == {notification_group_pilot_menu}
render_notification_routing_page == {notification_routing_menu}
render_notification_routing_test_page == {notification_group_setup_menu}
render_ui_self_test_page ==
    {Keys({"ui_self_test", "ui_self_test:run", "ui_self_test:details", "button_health"},
         "settings")}
render_notification_target_detail_page ==
    {notification_target_detail_menu, page_menu("notification_targets")}
render_notification_target_purpose_page ==
    {notification_target_purpose_menu, page_menu("notification_targets")}

-----------------------------------------------------------------------------
(* Team intelligence                                                       *)
render_team_intelligence_page(details) ==
    IF details THEN {Keys({"team_intelligence"}, "team_intelligence")}
    ELSE {Keys({"opportunities:manager", "team_intelligence:details", "help_copilot:@"},
         "owner_advanced")}
=============================================================================
