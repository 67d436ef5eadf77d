------------------------------- MODULE Menus --------------------------------
(***************************************************************************)
(* The keyboards of the screens (app/bot/menu.py): which page each button  *)
(* opens and where Back leads. Labels, icons and the layout in rows are    *)
(* left out. # stands for the number of a record and @ for a word chosen   *)
(* from a list (a status, a platform, a role); buttons a screen passes in  *)
(* are a parameter.                                                        *)
(***************************************************************************)
EXTENDS TLC

\* A screen without a Back button.
NoBack == "none"

\* What page_controls adds to every list of buttons: Back and the main menu.
Keys(buttons, back) == [buttons |-> buttons \cup {"menu"}, back |-> back]

-----------------------------------------------------------------------------
(* Home and the owner's first screens                                      *)
main_menu(buttons) == [buttons |-> buttons, back |-> NoBack]
role_home_menu(buttons) == [buttons |-> buttons, back |-> NoBack]
owner_simple_home_menu ==
    [buttons |-> {"today_priorities", "command_center:intelligence",
         "command_center:operations", "command_center:systems", "command_center:admin",
         "command_center:scores", "command_center"}, back |-> NoBack]
owner_advanced_home_menu ==
    Keys({"intelligence", "automations", "reports", "settings", "production_observability",
         "users", "recovery_center", "team_intelligence", "coo:briefing", "platforms", "search",
         "ai_brain", "agency_awareness", "reliability"}, "menu")
start_here_menu ==
    Keys({"first_workspace", "agency_activation", "coo:readiness", "help_copilot:@"}, "menu")
today_priorities_menu(buttons) ==
    Keys({"coo:briefing", "decision:top", "platforms:notifications", "recovery_center",
         "platforms", "agency_awareness"} \cup buttons, "menu")
setup_progress_menu(buttons) ==
    Keys({"first_workspace", "assistant_next", "coo:readiness"} \cup buttons, "menu")
first_workspace_menu(buttons) ==
    Keys({"automations:daily_autopilot:run", "setup_progress", "help_copilot:@"} \cup buttons,
         "start_here")
assistant_next_menu(target_page) ==
    Keys({target_page, "today_priorities", "help_copilot:@"}, "menu")
dashboard_menu == Keys({"dashboard:refresh", "tasks", "incidents"}, "menu")

-----------------------------------------------------------------------------
(* A member's own screens and help                                         *)
personalized_dashboard_menu ==
    Keys({"daily_experience", "tasks:my", "availability", "performance", "help"}, "menu")
daily_experience_menu(buttons) == Keys(buttons, "menu")
performance_menu == Keys({"tasks:my", "availability"}, "menu")
help_center_menu(buttons, back_to, ask_page) ==
    Keys({"structure", ask_page} \cup buttons, back_to)
structure_map_menu == Keys({"setup:wizard", "first_day_plan"}, "help")

-----------------------------------------------------------------------------
(* Setup and activation                                                    *)
setup_wizard_menu ==
    Keys({"agency_activation", "first_workspace", "setup:wizard:start", "setup:wizard:model",
         "setup:wizard:accounts", "setup:wizard:team", "setup:wizard:creators",
         "setup:wizard:opportunities", "setup:wizard:summary", "demo", "setup:cleanup",
         "structure"}, "menu")
agency_activation_menu ==
    Keys({"coo:top5", "coo:readiness", "owner_daily_checklist", "agency_activation:scan",
         "agency_activation:daily_cycle", "automations:daily_autopilot", "agency_activation:@",
         "agency_activation:accounts", "notification_targets", "proxies:entry_check",
         "team_onboarding_activation", "fortuna_action_log", "help_copilot:@"}, "menu")
activation_section_menu ==
    Keys({"models", "agency_activation:scan", "accounts", "manager_qa",
         "opportunities:creators", "opportunities:command", "notification_targets"},
         "agency_activation")
activation_blocker_detail_menu ==
    Keys({"agency_activation:blocker:@:#:fix", "agency_activation:blocker:@:#:explain",
         "agency_activation:blocker:@:#:skip", "agency_activation:blocker:@:#:not_needed"},
         "agency_activation:@")

-----------------------------------------------------------------------------
(* The COO layer, decisions and predictions                                *)
coo_dashboard_menu ==
    Keys({"coo:scan", "coo:top5", "coo:briefing", "coo:readiness", "coo:load",
         "manager_queue", "fortuna_action_log"}, "menu")
top5_actions_menu(buttons) == Keys({"coo:scan"} \cup buttons, "coo")
coo_briefing_menu ==
    Keys({"coo:briefing", "decision:top", "recovery_center", "platforms",
         "platforms:notifications", "coo:briefing:details", "decision:memory",
         "intelligence:quality", "prediction:preview", "ai_brain", "agency_awareness"},
         "owner_advanced")
decision_top_priority_menu(action_page) ==
    Keys({action_page, "decision:details", "decision:feedback:@", "coo:briefing"},
         "coo:briefing")
decision_details_menu ==
    Keys({"decision:feedback:@", "ai_brain:coo", "decision:memory", "coo:briefing",
         "decision:top"}, "coo:briefing")
decision_memory_menu ==
    Keys({"decision:memory:@", "decision:memory:details", "intelligence:quality"},
         "coo:briefing")
intelligence_quality_menu ==
    Keys({"reality:check", "intelligence:quality", "intelligence:quality:trends",
         "prediction:preview", "intelligence:quality:details", "coo:briefing", "decision:memory"},
         "coo:briefing")
decision_quality_trends_menu ==
    Keys({"reality:check", "intelligence:quality:trends", "intelligence:quality:categories",
         "decision:memory", "prediction:preview", "intelligence:quality:trends:details"},
         "intelligence:quality")
category_trends_menu ==
    Keys({"intelligence:quality:categories", "prediction:preview"},
         "intelligence:quality:trends")
prediction_preview_menu ==
    Keys({"prediction:outcome:@", "prediction:preview", "prediction:preview:details",
         "prediction:feedback:@"}, "intelligence:quality:trends")
reality_check_menu ==
    Keys({"reality:check", "decision:review", "evidence:notes", "reality:outcomes",
         "reality:calibration", "reality:accuracy", "knowledge:memory", "decision:timeline",
         "reality:check:details"}, "intelligence:quality")
prediction_outcomes_menu == Keys({"reality:outcomes", "reality:calibration"}, "reality:check")
calibration_menu == Keys({"reality:calibration", "reality:accuracy"}, "reality:check")
accuracy_by_category_menu == Keys({"reality:accuracy", "reality:calibration"}, "reality:check")
decision_review_menu ==
    Keys({"owner_validation:@", "evidence:notes", "decision:timeline",
         "decision:review:details"}, "reality:check")
decision_review_details_menu == Keys({}, "decision:review")
owner_validation_result_menu == Keys({"decision:review"}, "decision:review")
evidence_notes_menu ==
    Keys({"evidence:notes:record", "decision:review", "knowledge:memory"}, "decision:review")
evidence_note_recorded_menu == Keys({"knowledge:memory"}, "evidence:notes")
knowledge_memory_menu == Keys({"knowledge:memory:create", "decision:timeline"}, "reality:check")
decision_timeline_menu == Keys({"decision:review", "evidence:notes"}, "reality:check")

-----------------------------------------------------------------------------
(* Work lists and the setup of a model                                     *)
manager_queue_menu ==
    Keys({"manager_queue", "tasks", "incidents", "opportunities:manager"}, "coo")
my_work_menu == Keys({"tasks:my", "my_opportunities", "availability"}, "menu")
readiness_v2_menu(buttons) == Keys({"coo:scan"} \cup buttons, "agency_activation")
executive_mode_menu ==
    Keys({"coo:top5", "coo:briefing", "coo:readiness", "fortuna_action_log",
         "incidents:critical", "reports:executive:recommendations"}, "menu")
model_completion_menu ==
    Keys({"model:#:edit:@", "model:#:team", "model:#:accounts", "opportunities:creators",
         "opportunities:command", "help_copilot:@"}, "agency_activation:@")
account_setup_state_menu(buttons) == Keys({"accounts:add"} \cup buttons, "agency_activation")
setup_finish_menu ==
    Keys({"setup:wizard:finish", "setup:wizard:accounts", "setup:wizard:team",
         "setup:wizard:creators", "setup:wizard:opportunities", "model:#"}, "setup:wizard")
first_day_plan_menu(buttons) == Keys(buttons, "menu")
manager_setup_qa_menu ==
    Keys({"models:list", "opportunities:manager", "users:pending", "help_copilot:@",
         "team_qa"}, "menu")
demo_seed_menu == Keys({"demo:create", "demo:clear"}, "setup:wizard")
notification_digest_mode_menu ==
    Keys({"notification_digest:generate", "notification_digest"}, "settings")
team_qa_menu(buttons) == Keys(buttons, "users")
team_qa_detail_menu == Keys({"team_qa:#:@"}, "team_qa")

-----------------------------------------------------------------------------
(* Search and the AI brain                                                 *)
search_center_menu ==
    Keys({"search:run", "search:opportunity", "search:platform_signals", "search:coo_context",
         "search:history", "search:settings", "search:details"}, "owner_advanced")
search_history_menu ==
    Keys({"search:history:rerun", "search:results", "search:results:attach"}, "search")
search_results_menu ==
    Keys({"search:results:attach", "search:results:opportunity",
         "search:results:notification", "ai_brain:search", "search:results:ignore"},
         "search:history")
search_settings_menu == Keys({"search:settings", "search"}, "search")
ai_brain_menu(back_to) ==
    Keys({"ai_brain:coo", "ai_brain:evidence", "ai_brain:search", "ai_brain:opportunity",
         "ai_brain:critic", "ai_brain:settings", "ai_brain:details"}, back_to)
ai_settings_menu == Keys({"ai_brain:settings", "ai_brain"}, "ai_brain")
ai_critic_menu == Keys({"ai_brain:critic", "ai_brain:settings"}, "ai_brain")

-----------------------------------------------------------------------------
(* Checklists, rollout and the plain menus                                 *)
scheduled_automations_menu ==
    Keys({"automations:daily_autopilot", "automations:scheduled:run_due",
         "automations:health"}, "automations")
daily_autopilot_menu ==
    Keys({"automations:daily_autopilot:toggle", "automations:daily_autopilot:run",
         "automations:health"}, "automations")
owner_daily_checklist_menu ==
    Keys({"owner_daily_checklist:fix_top", "owner_daily_checklist:run_daily_cycle",
         "automations:approvals", "agency_activation", "opportunities:command"}, "menu")
team_onboarding_activation_menu ==
    Keys({"team_onboarding_activation", "users:pending", "users", "team_activation"},
         "agency_activation")
fortuna_action_log_menu == Keys({"fortuna_action_log:@"}, "agency_activation")
proxy_entry_check_menu ==
    Keys({"proxies:olympix", "proxies:missing", "proxies:list"}, "proxies")
page_menu(back_to) == Keys({}, back_to)
choice_menu(buttons, back_to) == Keys(buttons, back_to)

-----------------------------------------------------------------------------
(* Users and accounts                                                      *)
users_menu(buttons) == Keys({"users:pending"} \cup buttons, "owner_advanced")
accounts_menu ==
    Keys({"accounts:list", "accounts:add", "accounts:by_model", "accounts:by_platform",
         "accounts:attention"}, "menu")
account_list_menu(buttons, back_to) == Keys(buttons, back_to)
account_model_choice_menu(buttons) == Keys(buttons, "accounts")
account_platform_menu == Keys({"accounts:add:model:#:platform:@"}, "accounts:add")
platform_filter_menu == Keys({"accounts:platform:@"}, "accounts")
account_detail_menu ==
    Keys({"account:#:auth:start", "account:#:auth:enter", "account:#:auth:connected",
         "account:#:auth:needs_login", "account:#:disable", "account:#:archive",
         "account:#:proxy:assign_best", "account:#:proxy:assign", "account:#:proxy:remove",
         "proxies:add", "account:#:audit"}, "accounts:list")

-----------------------------------------------------------------------------
(* Proxies: adding                                                         *)
proxy_add_menu ==
    Keys({"proxies:olympix:paste", "proxies:olympix", "proxies:olympix:manual",
         "proxies:list"}, "proxies")
proxies_advanced_menu ==
    Keys({"proxies:cleanup_placeholders", "proxies:simulation", "proxies:dashboard",
         "proxies:real_check_pilot", "proxies:entry_check"}, "proxies")

-----------------------------------------------------------------------------
(* Tasks and incidents                                                     *)
tasks_menu ==
    Keys({"tasks:list", "tasks:create", "tasks:my", "tasks:team", "tasks:overdue",
         "tasks:blocked", "tasks:escalated"}, "menu")
task_list_menu(buttons, back_to) == Keys(buttons, back_to)
task_detail_menu ==
    Keys({"task:#:start", "task:#:block", "task:#:complete", "task:#:archive",
         "task:#:assign", "task:#:escalate"}, "tasks:list")
task_user_choice_menu(buttons) == Keys(buttons, "task:#")
incidents_menu ==
    Keys({"incidents:list", "incidents:create", "incidents:my", "incidents:critical"}, "menu")
incident_list_menu(buttons, back_to) == Keys(buttons, back_to)
incident_detail_menu ==
    Keys({"incident:#:assign", "incident:#:investigate", "incident:#:escalate",
         "incident:#:resolve", "incident:#:timeline", "incident:#:archive"}, "incidents:list")
incident_user_choice_menu(buttons) == Keys(buttons, "incident:#")

-----------------------------------------------------------------------------
(* Reports, recommendations and intelligence                               *)
reports_menu ==
    Keys({"reports:daily", "reports:digest", "reports:accountability", "reports:intelligence",
         "reports:workload", "reports:executive", "reports:manager", "reports:operations",
         "reports:chatter", "reports:va"}, "owner_advanced")
briefing_menu ==
    Keys({"reports:daily:generate", "reports:daily:latest", "reports:daily",
         "reports:daily:send_owner", "reports:daily:send_ops"}, "reports")
daily_digest_menu ==
    Keys({"reports:digest:generate", "reports:digest:preview", "reports:digest:send_hq",
         "reports:digest:send_ops", "reports:digest:schedule", "reports:digest:history"},
         "reports")
executive_dashboard_menu ==
    Keys({"reports:executive:recommendations", "reports:intelligence", "intelligence",
         "reports:daily:latest", "reports:accountability", "proxies:dashboard", "incidents",
         "automations", "automations:health", "bot_status", "reports:executive"}, "reports")
recommendations_menu(buttons) ==
    Keys({"reports:executive:recommendations"} \cup buttons, "reports:executive")
recommendation_detail_menu ==
    Keys({"recommendation:#:acknowledge", "recommendation:#:dismiss",
         "recommendation:#:resolve", "recommendation:#:jump", "recommendation:#:why",
         "recommendation:#:feedback:@", "recommendation:#:create_automation"},
         "reports:executive:recommendations")
intelligence_menu ==
    Keys({"reports:executive:recommendations", "intelligence:trends", "intelligence:quality",
         "search", "help_copilot:@", "intelligence:details"}, "owner_advanced")
trends_menu == Keys({"first_workspace", "intelligence:trends:details"}, "intelligence")
intelligence_details_menu ==
    Keys({"reports:intelligence", "intelligence:runs", "intelligence:signals",
         "intelligence:patterns", "intelligence:trends", "reports:workload",
         "reports:executive:recommendations", "opportunities", "intelligence:learning",
         "production_status"}, "intelligence")
intelligence_run_menu(buttons) ==
    Keys({"intelligence:run:full", "intelligence:run:@"} \cup buttons, "intelligence")
intelligence_briefing_menu ==
    Keys({"reports:intelligence:generate", "reports:intelligence:latest",
         "intelligence:signals", "intelligence:patterns", "intelligence:trends",
         "reports:workload", "intelligence:learning:briefing", "reports:intelligence:send_hq"},
         "reports")
learning_center_menu ==
    Keys({"intelligence:learning:outcome_memory", "intelligence:learning:playbooks",
         "intelligence:learning:details"}, "intelligence")
learning_details_menu ==
    Keys({"intelligence:learning:recommended", "intelligence:learning:outcome_memory",
         "intelligence:learning:confidence", "intelligence:learning:automation",
         "intelligence:learning:opportunity", "intelligence:learning:briefing"},
         "intelligence:learning")
learning_playbooks_menu(buttons, back_to) ==
    Keys({"intelligence:learning:recommended"} \cup buttons, back_to)
playbook_detail_menu ==
    Keys({"playbook:#:suggest", "playbook:#:history", "playbook:#:feedback:@"},
         "intelligence:learning:playbooks")

-----------------------------------------------------------------------------
(* Opportunities, creators and posts                                       *)
opportunities_menu(buttons, back_to) ==
    Keys({"opportunities:command", "opportunities:creators", "opportunities:posts",
         "opportunities:list", "opportunities:add", "opportunities:discovery",
         "opportunities:score", "opportunities:profiles", "opportunities:comments",
         "opportunities:best", "opportunities:results", "opportunities:manager"} \cup buttons,
         back_to)
opportunity_detail_menu ==
    Keys({"opportunity:#:assign", "opportunity:#:status",
         "opportunity:#:strategies:regenerate", "opportunity:#:record_result",
         "opportunity:#:create_task", "opportunities:learning", "help_copilot:@"},
         "opportunities:list")
creator_watch_menu(buttons) ==
    Keys({"opportunities:creators:add", "opportunities:creators"} \cup buttons,
         "opportunities")
creator_watch_detail_menu ==
    Keys({"creator:#:priority", "creator:#:niche", "creator:#:assign_model",
         "creator:#:assign_chatter", "creator:#:alert", "creator:#:opportunity",
         "creator:#:disable", "creator:#:archive", "help_copilot:@"}, "opportunities:creators")
post_watch_menu(buttons) ==
    Keys({"opportunities:posts", "opportunities:posts:attention", "opportunities:posts:add"}
         \cup buttons, "opportunities")
post_watch_detail_menu ==
    Keys({"post:#:opportunity", "post:#:alert", "post:#:assign_chatter",
         "post:#:status:recent", "post:#:record_result", "help_copilot:@"}, "opportunities:posts")
opportunity_command_menu ==
    Keys({"opportunities:add", "opportunities:list", "opportunities:creators",
         "opportunities:posts", "opportunities:results"}, "opportunities")
chatter_workspace_menu ==
    Keys({"my_opportunities", "my_models", "tasks:my", "availability", "performance",
         "help_copilot:@"}, "menu")

-----------------------------------------------------------------------------
(* The assistant                                                           *)
help_copilot_menu(back_to, question) == Keys({question}, back_to)
help_feedback_menu(next_action, back_to) == Keys({next_action, "help_feedback:#:@"}, back_to)
team_activation_menu(buttons) == Keys(buttons, "menu")
operations_dashboard_menu ==
    Keys({"tasks", "incidents", "accounts:attention", "proxies:dashboard"}, "reports")
manager_command_menu ==
    Keys({"tasks:create", "tasks:overdue", "incidents:list", "availability:team",
         "reports:digest:generate"}, "reports")

-----------------------------------------------------------------------------
(* Automations                                                             *)
automations_menu ==
    Keys({"automations:daily_autopilot", "automations:templates", "automations:runs",
         "automations:rules"}, "owner_advanced")
automation_rules_menu(buttons) ==
    Keys({"automations:templates", "automations:create"} \cup buttons, "automations")
automation_rule_detail_menu ==
    Keys({"automation:#:simulate", "automation:#:simulations", "automation:#:rollback",
         "automation:#:request_approval", "automation:#:run_now", "automation:#:pause",
         "automation:#:retire", "automation:#:runs", "automation:#:resume",
         "automation:#:activate"}, "automations:rules")
automation_templates_menu(buttons) ==
    Keys({"automations:templates"} \cup buttons, "automations")
simulation_runs_menu(buttons) ==
    Keys({"automations:simulate:proxy_repair", "automations:simulate:daily_briefing"} \cup
         buttons, "automations")
simulation_run_detail_menu ==
    Keys({"simulation:#:affected", "simulation:#:approve", "simulation:#:reject"},
         "automations:simulations")
automation_approvals_menu(buttons) == Keys(buttons, "automations")
automation_approval_detail_menu ==
    Keys({"approval:#:approve", "approval:#:reject", "automation:#", "automation:#:rollback"},
         "automations:approvals")
automation_runs_menu(buttons) == Keys(buttons, "automations")
automation_run_detail_menu(buttons) == Keys(buttons, "automations:runs")

-----------------------------------------------------------------------------
(* Proxies: one proxy                                                      *)
proxy_list_menu(buttons, back_to) == Keys({"proxies:olympix:paste"} \cup buttons, back_to)
proxy_detail_menu ==
    Keys({"proxy:#:assign", "proxy:#:check:simulated", "proxy:#:rotate_preview",
         "proxy:#:location", "proxy:#:history", "proxy:#:advanced"}, "proxies:list")
proxy_manage_menu ==
    Keys({"proxy:#:assign", "proxy:#:rotate_preview", "proxy:#:rollback", "proxy:#:location",
         "proxy:#:check:simulated", "proxy:#:remove", "proxy:#:archive_confirm",
         "proxy:#:delete_confirm", "proxy:#"}, "proxy:#")
proxy_detail_advanced_menu ==
    Keys({"proxy:#:disable_real", "proxy:#:check:real", "proxy:#:rotate_until_match",
         "proxy:#:rollback", "proxy:#:disable", "proxy:#:reactivate", "proxy:#:accounts",
         "proxy:#:remove", "proxy:#:audit", "proxy:#:enable_real"}, "proxy:#")
proxy_rotation_preview_menu == Keys({"proxy:#:rotate", "proxy:#:manage"}, "proxy:#")
\* A variant of proxy_result_menu: Back leads to the page it came from, an operation.
proxy_result_menu_back_where_from ==
    Keys({"proxy:#:check:simulated", "proxy:#:rollback"}, "proxy:#:rotate")
proxy_result_menu == Keys({"proxy:#:check:simulated", "proxy:#:rollback"}, "proxy:#")
proxy_import_success_menu ==
    [buttons |-> {"proxy:#:assign", "proxy:#:check:simulated", "proxy:#:location", "proxies"},
         back |-> NoBack]
proxy_archive_confirm_menu == Keys({"proxy:#:archive", "proxy:#:manage"}, "proxy:#:manage")
proxy_delete_confirm_menu ==
    Keys({"proxy:#:delete", "proxy:#:archive_confirm", "proxy:#:manage"}, "proxy:#:manage")
proxy_account_choice_menu(buttons) == Keys(buttons, "proxy:#")
account_proxy_choice_menu(buttons) == Keys(buttons, "account:#")

-----------------------------------------------------------------------------
(* Model brands                                                            *)
models_menu ==
    Keys({"models:list", "models:create", "setup:wizard:model", "models:search",
         "models:dashboard"}, "menu")
model_list_menu(buttons) == Keys(buttons, "models")
\* A variant of model_detail_menu: Back leads to the page the reader came from.
model_detail_menu_back_where_from ==
    Keys({"model:#:edit", "model:#:team", "model:#:accounts", "model:#:creators"}, "model:#:edit")
model_detail_menu ==
    Keys({"model:#:edit", "model:#:team", "model:#:accounts", "model:#:creators",
         "model:#:opportunities", "model:#:tasks", "model:#:incidents", "model:#:audit",
         "help_copilot:@"}, "models:list")
model_edit_menu ==
    Keys({"model:#:status:@", "model:#:edit:@", "model:#:archive", "model:#:team",
         "model:#:accounts"}, "model:#")
model_team_menu == Keys({"model:#:team:assign:@", "model:#:team:remove"}, "model:#")
model_member_choice_menu(buttons) == Keys(buttons, "model:#:team")

-----------------------------------------------------------------------------
(* Users and roles                                                         *)
user_detail_menu ==
    Keys({"user:#:approve", "user:#:deny", "user:#:assign_role", "user:#:remove_role",
         "user:#:disable", "user:#:demote_owner", "user:#:promote_owner", "user:#:reactivate"},
         "users")
role_choice_menu(choice) == Keys({choice}, "user:#")
roles_menu(buttons) == Keys(buttons, "menu")
role_detail_menu ==
    Keys({"role:#:permissions", "role:#:add_permission", "role:#:remove_permission",
         "permissions"}, "roles")
permission_choice_menu(choice) == Keys({choice}, "role:#")

-----------------------------------------------------------------------------
(* Settings and notifications                                              *)
settings_menu ==
    Keys({"setup:wizard", "bot_status", "production_status", "production_observability",
         "ui_self_test", "settings:chat_cleanup", "settings:report_problem", "button_health",
         "callback_failure_review", "availability", "availability:team", "notification_digest",
         "audit_logs", "notification_group_setup", "notification_group_pilot",
         "notification_routing", "notification_targets"}, "owner_advanced")
notification_targets_menu(buttons) ==
    Keys({"notification_targets:add", "notification_targets:add_current"} \cup buttons,
         "settings")
notification_group_setup_menu ==
    Keys({"notification_targets:add_current", "notification_targets:routing_test",
         "notification_routing", "notification_targets", "help:@", "notification_group_pilot"},
         "settings")
notification_group_pilot_menu ==
    Keys({"notification_targets:add_current", "notification_targets:routing_test",
         "notification_pilot:creator_alert", "notification_pilot:own_post_alert",
         "notification_group_pilot", "help_copilot:@"}, "settings")
notification_routing_menu ==
    Keys({"notification_targets:add_current", "notification_routing:mode:@",
         "notification_targets:test:@", "notification_targets:routing_test",
         "reports:digest:history"}, "settings")
notification_target_detail_menu ==
    Keys({"notification_target:#:purpose", "notification_target:#:disable",
         "notification_target:#:test", "notification_target:#:send_test"}, "notification_targets")
notification_target_purpose_menu ==
    Keys({"notification_target:#:purpose:@"}, "notification_target:#")
proxy_real_check_pilot_menu(buttons) ==
    Keys({"proxies:olympix", "proxies:entry_check", "help_copilot:@"} \cup buttons, "proxies")

-----------------------------------------------------------------------------
(* Availability                                                            *)
availability_menu == Keys({"availability:set:@"}, "settings")

-----------------------------------------------------------------------------
(* Pages that services name, for a screen to offer.                         *)
Manages(role) == role \in {"Owner", "Admin"}

\* What the home of a role without administration offers.
role_home_items ==
    [role \in {"Manager", "Chatter Manager"} |->
         {"availability:team", "manager_queue", "notification_group_pilot", "help"}]
    @@ [role \in {"Senior Chatter", "Chatter"} |->
         {"my_work", "my_opportunities", "opportunities", "help"}]
    @@ [role \in {"VA"} |-> {"tasks:my", "my_work", "help"}]
    @@ [role \in {"Model/Client"} |->
         {"client_dashboard", "my_accounts", "my_reports", "my_team"}]
    @@ [role \in {"Viewer"} |-> {"dashboard", "availability", "help"}]

\* Where a blocker of the set-up sends the reader.
blocker_pages ==
    {"setup:wizard:model", "model:#:complete", "model:#:accounts", "model:#:team",
         "opportunities:creators", "opportunities:command", "account:#", "notification_targets",
         "users:pending", "agency_activation"}

\* Where a decision of the Decision Engine sends the reader.
decision_pages ==
    {"recovery_center", "bot_status", "production_observability", "button_health",
         "platforms:alert_health", "platforms", "recommendation:#", "opportunities:best"}

\* The next steps of the set-up.
setup_steps ==
    {"agency_activation:@", "setup:wizard:accounts", "proxies", "setup:wizard:team",
         "setup:wizard:creators", "setup:wizard:opportunities", "notification_group_pilot",
         "automations:daily_autopilot:run"}

\* The next actions Fortuna's help suggests.
next_actions ==
    {"settings:chat_cleanup", "menu", "reliability", "reliability:details",
         "bot_instance_status", "coo:briefing", "decision:top", "decision:details",
         "decision:memory", "decision:review", "recovery_center", "platforms",
         "platforms:notifications", "intelligence:quality", "intelligence:quality:trends",
         "intelligence:quality:categories", "prediction:preview", "reality:check",
         "reality:outcomes", "reality:calibration", "drift", "drift:active", "drift:plans",
         "agency_awareness", "agency_awareness:missing", "agency_awareness:not_connected",
         "agency_awareness:details", "evidence:notes", "knowledge:memory", "ai_brain",
         "ai_brain:evidence", "ai_brain:critic", "ai_brain:settings", "search",
         "search:settings", "search:history", "search:results", "search:opportunity",
         "recovery:disaster_plan", "recovery:restore:test", "opportunities:best",
         "team_intelligence", "my_work", "production_observability", "help", "models:view",
         "setup:wizard:model", "agency_activation:@", "accounts", "my_opportunities",
         "opportunities:command", "opportunities:score", "opportunities:discovery",
         "opportunities:discovery:paste_post", "opportunities:profiles",
         "opportunities:comments", "intelligence:learning", "tasks:my"}
=============================================================================
